---------------------------- MODULE Spec2Model ----------------------------
(***************************************************************************)
(* A model of src/test.py: the remote-model client (MistralClient) with   *)
(* its retry loops, the document chunker (DocumentChunker), the vector     *)
(* store (VectorStore), the two pipelines (RAGPipelineV2, NormalMistral),  *)
(* the judge (LLMJudge) and the runner (ComparisonFramework, main).        *)
(*                                                                         *)
(* Texts are sequences of characters and word tokens; whitespace is kept   *)
(* as characters, so that str.split() is computed, not assumed, and the    *)
(* text of the judge model is parsed token by token as json.loads and the  *)
(* regular expressions of _parse read it.                                  *)
(* Time is not modelled beyond the sleeps: the latency of a call is the    *)
(* sum of the back-off waits it slept.                                     *)
(* Each component has its own specification: ClientSpec, ChunkerSpec,      *)
(* StoreSpec, JudgeSpec and RunSpec over the same Init, and PipelineSpec   *)
(* over the stores that StoreSpec builds. The store, the pipelines, the    *)
(* judge and the runner use the client through the summary of a whole      *)
(* chat or embed call (ChatOutcomes, EmbedOutcomes), which ClientSpec      *)
(* relates to the retry loops.                                             *)
(***************************************************************************)
EXTENDS Integers, Sequences, FiniteSets, TLC

(***************************************************************************)
(* Bounds of the model.                                                    *)
(***************************************************************************)
\* calls to chat/embed started in one behaviour
MaxCalls == 2
\* texts passed to one embed call
MaxTexts == 2
\* documents passed to one chunk_documents call
MaxDocs == 2
\* words of one document
MaxWords == 4
\* the largest chunk_size and overlap a chunker is constructed with
MaxChunkSize == 3
\* iterations of the window loop over one document (it need not terminate)
MaxLoop == 6
\* build_index and search calls on the store in one behaviour
MaxStoreOps == 4
\* the largest top_k a search is called with
MaxK == 2
\* process calls of the pipelines in one run
MaxProcessCalls == 1
\* evaluate calls of the judge
MaxJudgeCalls == 1
\* queries of a run
MaxQueries == 2

(***************************************************************************)
(* Program constants.                                                      *)
(***************************************************************************)
\* variant: one iteration too many
MoreAttempts == 5 + 1
\* for attempt in range(5)
MAX_ATTEMPTS == 5
\* if attempt < 4
LAST_ATTEMPT == 4
\* batch_size = 10
BATCH_SIZE == 10
\* temperatures, in tenths
TEMP_NORMAL == 7
TEMP_RAG == 3
\* TOP_K = 5
TOP_K == 5
\* TEMP_JUDGE = 0.1, in tenths
TEMP_JUDGE == 1

VARIABLES
    call_count,    \* MistralClient.call_count
    embed_count,   \* MistralClient.embed_count
    op,            \* the client call in progress: "idle", "chat" or "embed"
    attempt,       \* the loop variable of the retry loop
    ntexts,        \* len(texts) of the embed call in progress
    waits,         \* history: the time.sleep arguments of the current/last call
    outcomes,      \* history: the upstream outcome of each request of that call
    upstream,      \* history: the body the upstream sent with the last request
    count0,        \* history: <<call_count, embed_count>> when the call started
    ncalls,        \* history: calls started so far
    result         \* how the last call ended and what it handed back

clientVars == <<call_count, embed_count, op, attempt, ntexts, waits, outcomes,
                upstream, count0, ncalls, result>>

VARIABLES
    chunker,       \* the DocumentChunker: [chunk_size, overlap], once constructed
    cpc,           \* where the chunker is: "new", "ready", "doc", "window", "done"
    documents,     \* the argument of chunk_documents
    di,            \* the position of the outer loop in documents (1-based)
    words,         \* words of the document at di
    start,         \* start of the window
    all_chunks,    \* the chunks emitted so far
    chunk_id,      \* the counter chunk_id
    spans,         \* history: per emitted chunk, its document and word range
    loops          \* history: iterations of the window loop over this document

chunkerVars == <<chunker, cpc, documents, di, words, start, all_chunks, chunk_id,
                 spans, loops>>

VARIABLES
    index,          \* VectorStore.index: none, or the vectors it holds
    chunks,         \* VectorStore.chunks
    spc,            \* where the store is: "idle" or "building"
    bi,             \* build_index: the loop variable i
    all_embeddings, \* build_index: the batches embedded so far
    ties,           \* how the index orders equal scores: not specified, and
                    \* fixed once the index exists
    sresult,        \* how the last build_index or search ended, and its results
    nops,           \* history: build_index and search calls started
    everBuilt,      \* history: some build_index has completed on this store
    buildFailed,    \* history: the latest build_index raised
    batchFailed,    \* history: an embed call of the current/latest build failed
    memo            \* history: the first search that returned since the last
                    \* build, and whether a different search followed it

storeVars == <<index, chunks, spc, bi, all_embeddings, ties, sresult, nops,
               everBuilt, buildFailed, batchFailed, memo>>

VARIABLES
    rpc,            \* RAGPipelineV2.process: "idle", "generate" or "critique"
    pquery,         \* process: query
    retrieved,      \* process: retrieved
    answer,         \* process: answer, the draft
    revised,        \* process: revised
    metadata,       \* process: metadata
    presult,        \* how the last process call ended, and the row it returned
    oplog,          \* history: the calls the current or last process call made
    pops            \* history: process calls started

\* the locals are those of the process call in progress or just ended
pipelineVars == <<rpc, pquery, retrieved, answer, revised, metadata, presult,
                  oplog, pops>>

VARIABLES
    a_is,           \* LLMJudge.evaluate: the pipeline whose answer is labelled A
    joutput,        \* evaluate: output, the text of the judge model
    jresult,        \* how the last evaluate call ended, and its verdict
    evaluations,    \* LLMJudge.evaluations
    jlog,           \* history: the calls the last evaluate call made
    jops            \* history: evaluate calls started

judgeVars == <<a_is, joutput, jresult, evaluations, jlog, jops>>

VARIABLES
    fpc,            \* where main is: "new", "normal", "rag", "judge", "done",
                    \* or "raised" once run has raised
    qi,             \* run: the position of the loop in TEST_QUERIES (1-based)
    normal_result,  \* run: normal_result
    rag_result,     \* run: rag_result
    stages,         \* history: how the chat calls of the query in progress ended
    results,        \* ComparisonFramework.results
    runlog          \* history: the remote calls of the run, each with its query

runVars == <<fpc, qi, normal_result, rag_result, stages, results, runlog>>

vars == <<clientVars, chunkerVars, storeVars, pipelineVars, judgeVars, runVars>>

\* what the client leaves alone, what the chunker leaves alone, what the
\* store leaves alone (it uses the client's embed and its counter) and what
\* the pipelines leave alone (they use chat, and the store's search)
nonClientVars == <<chunkerVars, storeVars, pipelineVars, judgeVars, runVars>>
nonChunkerVars == <<clientVars, storeVars, pipelineVars, judgeVars, runVars>>
clientIdle == <<op, attempt, ntexts, waits, outcomes, upstream, count0, ncalls,
                result>>
clientRest == <<call_count, clientIdle>>
nonStoreVars == <<clientRest, chunkerVars, pipelineVars, judgeVars, runVars>>
nonPipelineVars == <<clientIdle, chunkerVars, judgeVars, runVars>>

(***************************************************************************)
(* The upstream service.  One request ends in one of:                      *)
(*   ok              status 200 and a well-formed body                     *)
(*   status_429      a response with status_code 429                       *)
(*   http_error      raise_for_status() raises HTTPError (4xx/5xx)         *)
(*   http_error_429  an HTTPError whose message contains "429"             *)
(*   transport       requests.post raises (timeout, connection error)      *)
(*   malformed       resp.json() or the indexing of the body raises        *)
(***************************************************************************)
Failures == {"status_429", "http_error", "http_error_429", "transport", "malformed"}
Outcomes == {"ok"} \cup Failures
HTTPErrors == {"http_error", "http_error_429"}

\* data['choices'][0]['message']['content'] of a successful response
Payloads == {<<"answer">>, <<"other", " ", "answer">>}
NoText == <<>>

SENTINEL == "[API_ERROR:"
\* f"[API_ERROR: {e}]"
SentinelText(e) == <<SENTINEL, " ", e, "]">>
MaxRetriesText == <<SENTINEL, " ", "max", " ", "retries", "]">>

RECURSIVE SumSeq(_)
SumSeq(s) == IF s = <<>> THEN 0 ELSE Head(s) + SumSeq(Tail(s))

\* time.time() - start
Elapsed(ws) == SumSeq(ws)

\* variant: a rate-limit wait four times the transient one
RateLimitWaitBug(n) == (2 ^ n) * 4
\* wait = (2 ** attempt) * 2
RateLimitWait(n) == (2 ^ n) * 2

\* variant: a wait that grows by 2 seconds per attempt
TransientWaitBug(n) == 2 * (n + 1)
\* time.sleep(2 ** attempt)
TransientWait(n) == 2 ^ n

(***************************************************************************)
(* What one iteration of a retry loop does: it sleeps and goes round       *)
(* again, or it ends the call by a return or by a raise.                   *)
(***************************************************************************)
Retry(w) == [ends |-> FALSE, how |-> "continue", text |-> NoText,
             sleep |-> w, counted |-> 0]
Return(t, c) == [ends |-> TRUE, how |-> "return", text |-> t,
                 sleep |-> 0, counted |-> c]
Raise(e) == [ends |-> TRUE, how |-> "raise", text |-> <<"Embedding failed:", e>>,
             sleep |-> 0, counted |-> 0]

\* variant: the success path forgets to count the call
ChatSuccessBug(p) == Return(p, 0)
\* output = data[...]; self.call_count += 1; return output, time.time() - start
ChatSuccess(p) == Return(p, 1)

\* variant: the last failure is re-raised, as embed does
ChatOnExceptionBug(n, e) ==
    IF n < LAST_ATTEMPT THEN Retry(TransientWait(n)) ELSE Raise(e)
\* except Exception as e
ChatOnException(n, e) ==
    IF n < LAST_ATTEMPT THEN Retry(TransientWait(n)) ELSE Return(SentinelText(e), 0)

\* except requests.exceptions.HTTPError as e
ChatOnHTTPError(n, e) ==
    IF e = "http_error_429"
    THEN Retry(RateLimitWait(n))
    ELSE IF n < LAST_ATTEMPT THEN Retry(TransientWait(n))
         ELSE Return(SentinelText(e), 0)

\* the body of chat's for loop, for the outcome o of its request
ChatBody(n, o, p) ==
    CASE o = "status_429" -> Retry(RateLimitWait(n))
      [] o = "ok" -> ChatSuccess(p)
      [] o \in HTTPErrors -> ChatOnHTTPError(n, o)
      [] OTHER -> ChatOnException(n, o)

\* the last statement of chat, after the loop
ChatAfterLoop == Return(MaxRetriesText, 0)

\* embed's except Exception as e
EmbedOnException(n, e) ==
    IF n < LAST_ATTEMPT THEN Retry(TransientWait(n)) ELSE Raise(e)

\* the body of embed's for loop; k = len(texts)
EmbedBody(n, o, k) ==
    CASE o = "status_429" -> Retry(RateLimitWait(n))
      [] o = "ok" -> Return(NoText, k)
      [] OTHER -> EmbedOnException(n, o)

NoResult == [op |-> "none", how |-> "none", text |-> NoText, latency |-> 0, nvec |-> 0]

\* no call of the client is in progress
ClientIdleInit ==
    /\ op = "idle"
    /\ attempt = 0
    /\ ntexts = 0
    /\ waits = <<>>
    /\ outcomes = <<>>
    /\ upstream = NoText
    /\ count0 = <<0, 0>>
    /\ ncalls = 0
    /\ result = NoResult

ClientInit ==
    /\ call_count = 0
    /\ embed_count = 0
    /\ ClientIdleInit

\* a caller enters chat: the statements before the loop
ChatCall ==
    /\ UNCHANGED nonClientVars
    /\ op = "idle"
    /\ ncalls < MaxCalls
    /\ op' = "chat"
    /\ attempt' = 0
    /\ ntexts' = 0
    /\ waits' = <<>>
    /\ outcomes' = <<>>
    /\ upstream' = NoText
    /\ count0' = <<call_count, embed_count>>
    /\ ncalls' = ncalls + 1
    /\ result' = NoResult
    /\ UNCHANGED <<call_count, embed_count>>

\* one iteration of chat's loop: one request, and what follows from it
ChatAttempt ==
    /\ UNCHANGED nonClientVars
    /\ op = "chat"
    /\ attempt < MAX_ATTEMPTS
    /\ \E o \in Outcomes, p \in Payloads :
         LET body == IF o = "ok" THEN p ELSE NoText
             r == ChatBody(attempt, o, body)
             ws == IF r.sleep > 0 THEN Append(waits, r.sleep) ELSE waits
         IN  /\ outcomes' = Append(outcomes, o)
             /\ upstream' = body
             /\ waits' = ws
             /\ call_count' = call_count + r.counted
             /\ IF r.ends
                THEN /\ op' = "idle"
                     /\ attempt' = attempt
                     /\ result' = [op |-> "chat", how |-> r.how, text |-> r.text,
                                   latency |-> Elapsed(ws), nvec |-> 0]
                ELSE /\ op' = "chat"
                     /\ attempt' = attempt + 1
                     /\ result' = result
    /\ UNCHANGED <<embed_count, ntexts, count0, ncalls>>

\* the loop ran out: return "[API_ERROR: max retries]", time.time() - start
ChatExhausted ==
    /\ UNCHANGED nonClientVars
    /\ op = "chat"
    /\ attempt >= MAX_ATTEMPTS
    /\ op' = "idle"
    /\ result' = [op |-> "chat", how |-> ChatAfterLoop.how, text |-> ChatAfterLoop.text,
                  latency |-> Elapsed(waits), nvec |-> 0]
    /\ UNCHANGED <<call_count, embed_count, attempt, ntexts, waits, outcomes,
                   upstream, count0, ncalls>>

\* a caller enters embed with k texts
EmbedCall ==
    /\ UNCHANGED nonClientVars
    /\ op = "idle"
    /\ ncalls < MaxCalls
    /\ \E k \in 1..MaxTexts : ntexts' = k
    /\ op' = "embed"
    /\ attempt' = 0
    /\ waits' = <<>>
    /\ outcomes' = <<>>
    /\ upstream' = NoText
    /\ count0' = <<call_count, embed_count>>
    /\ ncalls' = ncalls + 1
    /\ result' = NoResult
    /\ UNCHANGED <<call_count, embed_count>>

\* one iteration of embed's loop
EmbedAttempt ==
    /\ UNCHANGED nonClientVars
    /\ op = "embed"
    /\ attempt < MAX_ATTEMPTS
    /\ \E o \in Outcomes :
         LET r == EmbedBody(attempt, o, ntexts)
             ws == IF r.sleep > 0 THEN Append(waits, r.sleep) ELSE waits
         IN  /\ outcomes' = Append(outcomes, o)
             /\ waits' = ws
             /\ embed_count' = embed_count + r.counted
             /\ IF r.ends
                THEN /\ op' = "idle"
                     /\ attempt' = attempt
                     /\ result' = [op |-> "embed", how |-> r.how, text |-> r.text,
                                   latency |-> Elapsed(ws),
                                   nvec |-> IF r.how = "return" THEN ntexts ELSE 0]
                ELSE /\ op' = "embed"
                     /\ attempt' = attempt + 1
                     /\ result' = result
    /\ UNCHANGED <<call_count, ntexts, upstream, count0, ncalls>>

\* embed's loop ran out: no statement follows it, the call returns None
EmbedFallOff ==
    /\ UNCHANGED nonClientVars
    /\ op = "embed"
    /\ attempt >= MAX_ATTEMPTS
    /\ op' = "idle"
    /\ result' = [op |-> "embed", how |-> "return_none", text |-> NoText,
                  latency |-> Elapsed(waits), nvec |-> 0]
    /\ UNCHANGED <<call_count, embed_count, attempt, ntexts, waits, outcomes,
                   upstream, count0, ncalls>>

ClientNext ==
    \/ ChatCall
    \/ ChatAttempt
    \/ ChatExhausted
    \/ EmbedCall
    \/ EmbedAttempt
    \/ EmbedFallOff

(***************************************************************************)
(* DocumentChunker.                                                        *)
(* A content is a sequence of characters; str.split() and ' '.join are     *)
(* computed on it character by character.                                  *)
(***************************************************************************)
Whitespace == {" ", "\n", "\t"}

Min(a, b) == IF a < b THEN a ELSE b
Max(a, b) == IF a > b THEN a ELSE b

\* str.split(): the maximal runs of non-whitespace characters
RECURSIVE SplitFrom(_, _, _)
SplitFrom(s, cur, acc) ==
    IF s = <<>>
    THEN IF cur = <<>> THEN acc ELSE Append(acc, cur)
    ELSE IF Head(s) \in Whitespace
         THEN SplitFrom(Tail(s), <<>>, IF cur = <<>> THEN acc ELSE Append(acc, cur))
         ELSE SplitFrom(Tail(s), Append(cur, Head(s)), acc)
Split(s) == SplitFrom(s, <<>>, <<>>)

\* sep.join(ws)
RECURSIVE JoinWith(_, _)
JoinWith(sep, ws) ==
    IF ws = <<>> THEN <<>>
    ELSE IF Len(ws) = 1 THEN Head(ws)
    ELSE Head(ws) \o sep \o JoinWith(sep, Tail(ws))
\* ' '.join(ws)
Join(ws) == JoinWith(<<" ">>, ws)

\* Python's index clamping for a slice bound of a sequence of length n
SliceBound(i, n) == IF i < 0 THEN Max(i + n, 0) ELSE Min(i, n)
\* seq[a:b]
PySlice(seq, a, b) ==
    LET lo == SliceBound(a, Len(seq))
        hi == SliceBound(b, Len(seq))
    IN  IF lo < hi THEN SubSeq(seq, lo + 1, hi) ELSE <<>>

(***************************************************************************)
(* The documents of the model: for each word count up to MaxWords, one     *)
(* content of distinct words separated by single spaces, and one of equal  *)
(* words with leading, doubled and trailing whitespace.                    *)
(***************************************************************************)
Word(i) == [j \in 1..i |-> IF j = i THEN "b" ELSE "a"]
TidyContent(n) == Join([i \in 1..n |-> Word(i)])
MessyContent(n) == <<" ">> \o JoinWith(<<" ", "\n">>, [i \in 1..n |-> <<"a">>]) \o <<"\t">>
Contents == {TidyContent(n) : n \in 0..MaxWords} \cup {MessyContent(n) : n \in 0..MaxWords}

\* lists of at most MaxDocs documents with unique ids
DocumentLists ==
    UNION { { [k \in 1..n |-> [id |-> <<"doc", k>>, title |-> <<"title", k>>,
                               content |-> cs[k]]] : cs \in [1..n -> Contents] }
            : n \in 0..MaxDocs }

\* {"chunk_id": ..., "doc_id": doc["id"], "title": doc["title"], "text": ...}
Chunk(id, doc, text) ==
    [chunk_id |-> id, doc_id |-> doc.id, title |-> doc.title, text |-> text]

\* variant: the short document is re-joined from its words
WholeTextBug(doc, ws) == Join(ws)
\* "text": doc["content"]
WholeText(doc, ws) == doc.content

\* variant: a window one word short
WindowEndBug(st, size, n) == Min(st + size - 1, n)
\* end = min(start + self.chunk_size, len(words))
WindowEnd(st, size, n) == Min(st + size, n)

\* "text": ' '.join(words[start:end])
WindowText(ws, st, en) == Join(PySlice(ws, st, en))

\* variant: the window moves on by a whole chunk_size
AdvanceBug(st, size, ov) == st + size
\* start += self.chunk_size - self.overlap
Advance(st, size, ov) == st + (size - ov)

\* variant: the counter is not advanced
NextChunkIdBug(id) == id
\* chunk_id += 1
NextChunkId(id) == id + 1

ChunkerInit ==
    /\ chunker = [chunk_size |-> 0, overlap |-> 0]
    /\ cpc = "new"
    /\ documents = <<>>
    /\ di = 1
    /\ words = <<>>
    /\ start = 0
    /\ all_chunks = <<>>
    /\ chunk_id = 0
    /\ spans = <<>>
    /\ loops = 0

\* DocumentChunker(chunk_size, overlap)
Construct ==
    /\ UNCHANGED nonChunkerVars
    /\ cpc = "new"
    /\ \E size \in 1..MaxChunkSize, ov \in 0..MaxChunkSize :
         chunker' = [chunk_size |-> size, overlap |-> ov]
    /\ cpc' = "ready"
    /\ UNCHANGED <<documents, di, words, start, all_chunks, chunk_id, spans, loops>>

\* chunk_documents(documents): all_chunks = []; chunk_id = 0
ChunkDocuments ==
    /\ UNCHANGED nonChunkerVars
    /\ cpc = "ready"
    /\ \E docs \in DocumentLists : documents' = docs
    /\ all_chunks' = <<>>
    /\ chunk_id' = 0
    /\ spans' = <<>>
    /\ di' = 1
    /\ cpc' = "doc"
    /\ UNCHANGED <<chunker, words, start, loops>>

\* for doc in documents: a document of at most chunk_size words
ChunkWhole ==
    /\ UNCHANGED nonChunkerVars
    /\ cpc = "doc"
    /\ di <= Len(documents)
    /\ LET doc == documents[di]
           ws == Split(doc.content)
       IN  /\ Len(ws) <= chunker.chunk_size
           /\ words' = ws
           /\ all_chunks' = Append(all_chunks, Chunk(chunk_id, doc, WholeText(doc, ws)))
           /\ spans' = Append(spans, [doc |-> di, from |-> 0, to |-> Len(ws)])
           /\ chunk_id' = NextChunkId(chunk_id)
    /\ di' = di + 1
    /\ UNCHANGED <<chunker, cpc, documents, start, loops>>

\* for doc in documents: a longer document; start = 0
EnterWindow ==
    /\ UNCHANGED nonChunkerVars
    /\ cpc = "doc"
    /\ di <= Len(documents)
    /\ LET ws == Split(documents[di].content)
       IN  /\ Len(ws) > chunker.chunk_size
           /\ words' = ws
    /\ start' = 0
    /\ loops' = 0
    /\ cpc' = "window"
    /\ UNCHANGED <<chunker, documents, di, all_chunks, chunk_id, spans>>

\* one iteration of: while start < len(words)
WindowStep ==
    /\ UNCHANGED nonChunkerVars
    /\ cpc = "window"
    /\ start < Len(words)
    /\ loops < MaxLoop
    /\ LET doc == documents[di]
           en == WindowEnd(start, chunker.chunk_size, Len(words))
       IN  /\ all_chunks' = Append(all_chunks,
                                   Chunk(chunk_id, doc, WindowText(words, start, en)))
           /\ spans' = Append(spans, [doc |-> di, from |-> start, to |-> en])
    /\ chunk_id' = NextChunkId(chunk_id)
    /\ start' = Advance(start, chunker.chunk_size, chunker.overlap)
    /\ loops' = loops + 1
    /\ UNCHANGED <<chunker, cpc, documents, di, words>>

\* the window loop ends: on to the next document
LeaveWindow ==
    /\ UNCHANGED nonChunkerVars
    /\ cpc = "window"
    /\ ~(start < Len(words))
    /\ di' = di + 1
    /\ cpc' = "doc"
    /\ UNCHANGED <<chunker, documents, words, start, all_chunks, chunk_id, spans, loops>>

\* return all_chunks
ReturnChunks ==
    /\ UNCHANGED nonChunkerVars
    /\ cpc = "doc"
    /\ di > Len(documents)
    /\ cpc' = "done"
    /\ UNCHANGED <<chunker, documents, di, words, start, all_chunks, chunk_id, spans, loops>>

ChunkerNext ==
    \/ Construct
    \/ ChunkDocuments
    \/ ChunkWhole
    \/ EnterWindow
    \/ WindowStep
    \/ LeaveWindow
    \/ ReturnChunks

(***************************************************************************)
(* A whole call of the client, as its callers see it.                      *)
(* chat returns a text: the body of a successful request after 1..5        *)
(* requests (counted once), or a sentinel text after 5 (not counted).      *)
(* embed returns one vector per text ("vectors"), raises ("raise") or      *)
(* falls off its loop and returns None ("none").                           *)
(***************************************************************************)
SentinelTexts == {SentinelText(e) : e \in Failures} \cup {MaxRetriesText}
ChatOutcomes(payloads) ==
    {[text |-> t, counted |-> 1, requests |-> r] : t \in payloads, r \in 1..MAX_ATTEMPTS}
    \cup {[text |-> t, counted |-> 0, requests |-> MAX_ATTEMPTS] : t \in SentinelTexts}
EmbedOutcomes == {"vectors", "raise", "none"}

(***************************************************************************)
(* Embeddings. The embedding service is a function of the text (the       *)
(* embeddings are deterministic): two small integer coordinates.           *)
(* normalize_L2 divides a vector by its length; the model keeps the        *)
(* vector and the square of its length, and compares inner products of     *)
(* normalized vectors exactly, through their signed squares.               *)
(***************************************************************************)
Embedding(t) == <<Len(Split(t)) + 1, Len(t) % 3>>
Dot(u, v) == SumSeq([i \in 1..Len(u) |-> u[i] * v[i]])

\* faiss.normalize_L2
Normalize(v) == [vec |-> v, norm2 |-> Dot(v, v)]

\* the inner product of two normalized vectors: num / sqrt(den2)
InnerProduct(a, b) == [num |-> Dot(a.vec, b.vec), den2 |-> a.norm2 * b.norm2]
\* the score of a slot the index could not fill
NegInf == [num |-> 0 - 1, den2 |-> 0]
Abs(n) == IF n < 0 THEN 0 - n ELSE n
SignedSq(n) == n * Abs(n)
ScoreGT(a, b) == SignedSq(a.num) * b.den2 > SignedSq(b.num) * a.den2
ScoreEQ(a, b) == ~ScoreGT(a, b) /\ ~ScoreGT(b, a)

NoIndex == [none |-> TRUE, d |-> 0, vecs |-> <<>>]
\* faiss.IndexFlatIP(d), still empty
EmptyIndex(d) == [none |-> FALSE, d |-> d, vecs |-> <<>>]

\* the position of the best of the positions S of vecs for the query q
Best(vecs, q, S, policy) ==
    CHOOSE i \in S : \A j \in S \ {i} :
        LET si == InnerProduct(q, vecs[i])
            sj == InnerProduct(q, vecs[j])
        IN  \/ ScoreGT(si, sj)
            \/ /\ ScoreEQ(si, sj)
               /\ IF policy = "insertion" THEN i < j ELSE i > j

RECURSIVE RankFrom(_, _, _, _, _)
RankFrom(vecs, q, S, n, policy) ==
    IF n = 0 \/ S = {} THEN <<>>
    ELSE LET b == Best(vecs, q, S, policy)
         IN  <<[idx |-> b - 1, score |-> InnerProduct(q, vecs[b])]>>
             \o RankFrom(vecs, q, S \ {b}, n - 1, policy)

\* index.search(query_emb, top_k): the k best, by decreasing score; the
\* slots it cannot fill hold index -1
IndexSearch(ix, q, k, policy) ==
    LET found == RankFrom(ix.vecs, q, 1..Len(ix.vecs), k, policy)
    IN  found \o [i \in 1..(k - Len(found)) |-> [idx |-> 0 - 1, score |-> NegInf]]

\* chunk = self.chunks[idx].copy(); chunk["relevance_score"] = float(score)
ScoredCopy(c, score) ==
    [chunk_id |-> c.chunk_id, doc_id |-> c.doc_id, title |-> c.title,
     text |-> c.text, relevance_score |-> score]

\* seq[i] of Python, for -len <= i < len
PyIndex(seq, i) == IF i < 0 THEN seq[Len(seq) + i + 1] ELSE seq[i + 1]
PyIndexRaises(seq, i) == i >= Len(seq) \/ i < 0 - Len(seq)

\* if idx < len(self.chunks)
KeepHit(h, cs) == h.idx < Len(cs)

\* the loop of search over the hits: the results, or an IndexError
RECURSIVE Collect(_, _)
Collect(hits, cs) ==
    IF hits = <<>> THEN [raises |-> FALSE, results |-> <<>>]
    ELSE LET h == Head(hits)
             rest == Collect(Tail(hits), cs)
         IN  IF ~KeepHit(h, cs) THEN rest
             ELSE IF PyIndexRaises(cs, h.idx) THEN [raises |-> TRUE, results |-> <<>>]
             ELSE [raises |-> rest.raises,
                   results |-> IF rest.raises THEN <<>>
                               ELSE <<ScoredCopy(PyIndex(cs, h.idx), h.score)>>
                                    \o rest.results]

\* variant: the score is written into the stored chunk itself
StoredAfterSearchNoCopy(cs, hits) ==
    [i \in 1..Len(cs) |->
        IF \E n \in 1..Len(hits) : hits[n].idx = i - 1
        THEN ScoredCopy(cs[i], hits[CHOOSE n \in 1..Len(hits) : hits[n].idx = i - 1].score)
        ELSE cs[i]]
\* variant: the best chunk is taken out of the store
StoredAfterSearchPop(cs, hits) ==
    IF hits # <<>> /\ Head(hits).idx >= 0 /\ Head(hits).idx < Len(cs)
    THEN [i \in 1..(Len(cs) - 1) |-> IF i <= Head(hits).idx THEN cs[i] ELSE cs[i + 1]]
    ELSE cs
\* self.chunks after the loop of search: it reads the chunks and copies them
StoredAfterSearch(cs, hits) == cs

(***************************************************************************)
(* The chunk lists of the model: no chunk, fewer chunks than a search     *)
(* asks for, and one more than a batch, with ids 0, 1, ... and texts that  *)
(* rotate through three contents.                                          *)
(***************************************************************************)
StoreTexts == <<TidyContent(1), TidyContent(2), MessyContent(1)>>
ChunkCounts == {0, 1, BATCH_SIZE + 1}
StoreDoc(i) == [id |-> <<"doc", ((i - 1) \div 4) + 1>>,
                title |-> <<"title", ((i - 1) \div 4) + 1>>]
ChunkLists ==
    { [i \in 1..n |-> Chunk(i - 1, StoreDoc(i), StoreTexts[(i % 3) + 1])]
      : n \in ChunkCounts }
Queries == {TidyContent(1), MessyContent(2)}

NoSResult == [op |-> "none", how |-> "none", results |-> <<>>, query |-> NoText, k |-> 0]
NoMemo == [set |-> FALSE, query |-> NoText, k |-> 0, results |-> <<>>,
           between |-> FALSE]

StoreInit ==
    /\ index = NoIndex
    /\ chunks = <<>>
    /\ spc = "idle"
    /\ bi = 0
    /\ all_embeddings = <<>>
    /\ ties = "insertion"
    /\ sresult = NoSResult
    /\ nops = 0
    /\ everBuilt = FALSE
    /\ buildFailed = FALSE
    /\ batchFailed = FALSE
    /\ memo = NoMemo

\* build_index(chunks): self.chunks = chunks; texts; all_embeddings = []
BuildStart ==
    /\ UNCHANGED nonStoreVars
    /\ spc = "idle"
    /\ nops < MaxStoreOps
    /\ \E cs \in ChunkLists : chunks' = cs
    /\ spc' = "building"
    /\ bi' = 0
    /\ all_embeddings' = <<>>
    /\ sresult' = NoSResult
    /\ nops' = nops + 1
    /\ batchFailed' = FALSE
    /\ memo' = NoMemo
    /\ UNCHANGED <<index, ties, everBuilt, buildFailed, embed_count>>

\* one iteration of the batch loop: embeddings = client.embed(batch)
BuildBatch ==
    /\ UNCHANGED nonStoreVars
    /\ spc = "building"
    /\ bi < Len(chunks)
    /\ LET texts == [i \in 1..Len(chunks) |-> chunks[i].text]
           batch == PySlice(texts, bi, bi + BATCH_SIZE)
       IN  \E o \in EmbedOutcomes :
             CASE o = "vectors" ->
                    /\ embed_count' = embed_count + Len(batch)
                    /\ all_embeddings' = Append(all_embeddings,
                          [none |-> FALSE,
                           rows |-> [i \in 1..Len(batch) |-> Embedding(batch[i])]])
                    /\ bi' = bi + BATCH_SIZE
                    /\ UNCHANGED <<spc, sresult, buildFailed, batchFailed>>
               [] o = "none" ->
                    /\ all_embeddings' = Append(all_embeddings,
                                                [none |-> TRUE, rows |-> <<>>])
                    /\ bi' = bi + BATCH_SIZE
                    /\ batchFailed' = TRUE
                    /\ UNCHANGED <<embed_count, spc, sresult, buildFailed>>
               [] o = "raise" ->
                    /\ spc' = "idle"
                    /\ sresult' = [NoSResult EXCEPT !.op = "build", !.how = "raise"]
                    /\ buildFailed' = TRUE
                    /\ batchFailed' = TRUE
                    /\ UNCHANGED <<embed_count, all_embeddings, bi>>
    /\ UNCHANGED <<index, chunks, ties, nops, everBuilt, memo>>

RECURSIVE Rows(_)
Rows(bs) == IF bs = <<>> THEN <<>> ELSE Head(bs).rows \o Rows(Tail(bs))

\* variant: the rows are added as they came, not normalized
BuiltIndexBug(rows) ==
    [none |-> FALSE, d |-> Len(rows[1]),
     vecs |-> [i \in 1..Len(rows) |-> [vec |-> rows[i], norm2 |-> 1]]]
\* IndexFlatIP(all_embeddings.shape[1]); normalize_L2; index.add
BuiltIndex(rows) ==
    [none |-> FALSE, d |-> Len(rows[1]),
     vecs |-> [i \in 1..Len(rows) |-> Normalize(rows[i])]]

\* after the loop: np.vstack, IndexFlatIP, normalize_L2, add.
\* vstack raises on an empty list and on a None among arrays; of None rows
\* alone it makes an array that normalize_L2 refuses, after self.index has
\* been set to an empty index of dimension 1.
BuildFinish ==
    /\ UNCHANGED nonStoreVars
    /\ spc = "building"
    /\ bi >= Len(chunks)
    /\ spc' = "idle"
    /\ LET nones == {i \in 1..Len(all_embeddings) : all_embeddings[i].none}
       IN  IF all_embeddings # <<>> /\ nones = {}
           THEN /\ index' = BuiltIndex(Rows(all_embeddings))
                /\ ties' \in {"insertion", "reverse"}
                /\ sresult' = [NoSResult EXCEPT !.op = "build", !.how = "return"]
                /\ everBuilt' = TRUE
                /\ buildFailed' = FALSE
           ELSE /\ \/ index' = index
                   \/ /\ all_embeddings # <<>>
                      /\ Cardinality(nones) = Len(all_embeddings)
                      /\ index' = EmptyIndex(1)
                /\ sresult' = [NoSResult EXCEPT !.op = "build", !.how = "raise"]
                /\ buildFailed' = TRUE
                /\ UNCHANGED <<everBuilt, ties>>
    /\ UNCHANGED <<chunks, bi, all_embeddings, nops, batchFailed, memo, embed_count>>

\* variant: a store without index answers with no results
SearchBodyLenient(ix, cs, query, k, policy) ==
    LET q == Normalize(Embedding(query))
        hits == IndexSearch(ix, q, k, policy)
        got == Collect(hits, cs)
    IN  [raises |-> got.raises, results |-> got.results, stored |-> cs]
\* what search does once the query is embedded
SearchBody(ix, cs, query, k, policy) ==
    LET q == Normalize(Embedding(query))
    IN  IF ix.none \/ ix.d # Len(q.vec)
        THEN [raises |-> TRUE, results |-> <<>>, stored |-> cs]
        ELSE LET hits == IndexSearch(ix, q, k, policy)
                 got == Collect(hits, cs)
             IN  [raises |-> got.raises, results |-> got.results,
                  stored |-> StoredAfterSearch(cs, hits)]

\* variant: a query that could not be embedded finds nothing
SearchCallAbsorbing(ix, cs, query, k, policy, o) ==
    IF o = "vectors" THEN SearchBody(ix, cs, query, k, policy)
    ELSE [raises |-> FALSE, results |-> <<>>, stored |-> cs]
\* search(query, top_k), with the outcome o of its embed call
SearchCall(ix, cs, query, k, policy, o) ==
    IF o = "vectors" THEN SearchBody(ix, cs, query, k, policy)
    ELSE [raises |-> TRUE, results |-> <<>>, stored |-> cs]

\* what one search(query, k) does to the store and to the embed counter
SearchStep(query, k, o) ==
    LET r == SearchCall(index, chunks, query, k, ties, o)
        res == [op |-> "search", how |-> IF r.raises THEN "raise" ELSE "return",
                results |-> r.results, query |-> query, k |-> k]
    IN  /\ embed_count' = embed_count + (IF o = "vectors" THEN 1 ELSE 0)
        /\ chunks' = r.stored
        /\ sresult' = res
        /\ memo' = IF memo.set
                   THEN [memo EXCEPT !.between =
                            @ \/ query # memo.query \/ k # memo.k]
                   ELSE IF r.raises THEN memo
                   ELSE [set |-> TRUE, query |-> query, k |-> k,
                         results |-> r.results, between |-> FALSE]
        /\ nops' = nops + 1
        /\ UNCHANGED <<index, spc, bi, all_embeddings, ties, everBuilt,
                       buildFailed, batchFailed>>

\* VectorStore.search(query, top_k)
Search ==
    /\ UNCHANGED nonStoreVars
    /\ spc = "idle"
    /\ nops < MaxStoreOps
    /\ \E query \in Queries, k \in 1..MaxK, o \in EmbedOutcomes :
         SearchStep(query, k, o)

\* ComparisonFramework.__init__: chunks = chunker.chunk_documents(...);
\* self.vector_store.build_index(chunks), the first statements of build_index
IngestBuild ==
    /\ UNCHANGED nonStoreVars
    /\ cpc = "done"
    /\ spc = "idle"
    /\ nops = 0
    /\ chunks' = all_chunks
    /\ spc' = "building"
    /\ bi' = 0
    /\ all_embeddings' = <<>>
    /\ sresult' = NoSResult
    /\ nops' = nops + 1
    /\ batchFailed' = FALSE
    /\ memo' = NoMemo
    /\ UNCHANGED <<index, ties, everBuilt, buildFailed, embed_count>>

StoreNext ==
    \/ BuildStart
    \/ BuildBatch
    \/ BuildFinish
    \/ Search

(***************************************************************************)
(* The pipelines.  RAGPipelineV2.process retrieves, generates a draft and  *)
(* asks for a revision; NormalMistral.process asks once.  The texts the    *)
(* upstream model may answer have 0, 3, 7 and 10 words (the sentinels have *)
(* 2 and 3), so that a revision can fall on either side of 0.7 x the draft *)
(* and on it.                                                              *)
(***************************************************************************)
AnswerTexts == {TidyContent(0), TidyContent(3), MessyContent(7), TidyContent(10)}
\* what a chat call of a pipeline may come back with
PipelineChat == ChatOutcomes(AnswerTexts)

\* len(text.split())
WordCount(text) == Len(Split(text))

\* one entry of the call history
SearchEntry(how) ==
    [fn |-> "search", system |-> "none", temperature |-> 0, outcome |-> how,
     retried |-> FALSE]
EmbedEntry(o) ==
    [fn |-> "embed", system |-> "none", temperature |-> 0, outcome |-> o,
     retried |-> FALSE]
ChatEntry(system, temperature, o) ==
    [fn |-> "chat", system |-> system, temperature |-> temperature,
     outcome |-> IF o.counted = 0 THEN "sentinel" ELSE "text",
     retried |-> o.requests > 1]

\* _build_context(chunks): for each chunk its title, its relevance and its
\* text, in the order given (the code prints the relevance with three
\* decimals; the model keeps the score)
BuildContext(cs) ==
    [i \in 1..Len(cs) |->
       [title |-> cs[i].title, relevance |-> cs[i].relevance_score,
        text |-> cs[i].text]]
\* rag_prompt: the template with {context} and {query} filled in
RagPrompt(context, query) ==
    [template |-> "rag_prompt", context |-> context, query |-> query,
     answer |-> NoText]
\* variant: the review is asked about the question alone
CritiquePromptBug(query, draft) ==
    [template |-> "critique_prompt", context |-> <<>>, query |-> query,
     answer |-> NoText]
\* critique_prompt: the template with {query} and {answer} filled in
CritiquePrompt(query, draft) ==
    [template |-> "critique_prompt", context |-> <<>>, query |-> query,
     answer |-> draft]
\* a chat entry of the history with the prompt sent and the text returned
Exchange(e, prompt, o) ==
    [fn |-> e.fn, system |-> e.system, temperature |-> e.temperature,
     outcome |-> e.outcome, retried |-> e.retried,
     prompt |-> prompt, returned |-> o.text]

\* variant: the client's requests are counted
ApiCallsBug(o) == o.requests
\* metadata["api_calls"] += 1
ApiCalls(o) == 1

\* variant: an empty draft is kept, the ratio being undefined
FinalOutputOfRatio(rev, draft) ==
    IF WordCount(draft) = 0 THEN draft
    ELSE IF 10 * WordCount(rev) >= 7 * WordCount(draft) THEN rev ELSE draft
\* variant: the revision has to be as long as the draft
FinalOutputBug(rev, draft) ==
    IF WordCount(rev) >= WordCount(draft) THEN rev ELSE draft
\* revised if len(revised.split()) >= len(answer.split()) * 0.7 else answer
\* (for counts below 2000 the floating-point test is 10 * r >= 7 * n)
FinalOutput(rev, draft) ==
    IF 10 * WordCount(rev) >= 7 * WordCount(draft) THEN rev ELSE draft

\* variant: the baseline asks at the pipeline's temperature
NormalCallsBug(o) == <<ChatEntry("generic", TEMP_RAG, o)>>
\* client.chat(query, "You are a helpful assistant.", TEMP_NORMAL)
NormalCalls(o) == <<ChatEntry("generic", TEMP_NORMAL, o)>>

NoMetadata == [api_calls |-> 0]
NoRow == [query |-> NoText, output |-> NoText]
NoPResult == [who |-> "none", how |-> "none", row |-> NoRow]

PipelineInit ==
    /\ rpc = "idle"
    /\ pquery = NoText
    /\ retrieved = <<>>
    /\ answer = NoText
    /\ revised = NoText
    /\ metadata = NoMetadata
    /\ presult = NoPResult
    /\ oplog = <<>>
    /\ pops = 0

\* RAGPipelineV2.process, step 1: retrieve
RagRetrieve ==
    /\ UNCHANGED <<call_count, nonPipelineVars>>
    /\ rpc = "idle"
    /\ spc = "idle"
    /\ pops < MaxProcessCalls
    /\ pops' = pops + 1
    /\ \E query \in Queries, o \in EmbedOutcomes :
         LET r == SearchCall(index, chunks, query, TOP_K, ties, o)
         IN  /\ SearchStep(query, TOP_K, o)
             /\ pquery' = query
             /\ oplog' = <<SearchEntry(IF r.raises THEN "raise" ELSE "return"),
                           EmbedEntry(o)>>
             /\ retrieved' = r.results
             /\ IF r.raises
                THEN /\ rpc' = "idle"
                     /\ metadata' = NoMetadata
                     /\ presult' = [who |-> "rag", how |-> "raise", row |-> NoRow]
                ELSE /\ rpc' = "generate"
                     /\ metadata' =
                           [api_calls |-> 0,
                            chunks_retrieved |-> Len(r.results),
                            chunk_sources |-> {r.results[i].doc_id :
                                                  i \in 1..Len(r.results)}]
                     /\ presult' = NoPResult
    /\ answer' = NoText
    /\ revised' = NoText

\* RAGPipelineV2.process: the generation call
RagGenerate ==
    /\ UNCHANGED <<embed_count, nonPipelineVars, storeVars>>
    /\ rpc = "generate"
    /\ \E o \in PipelineChat :
         /\ call_count' = call_count + o.counted
         /\ answer' = o.text
         /\ metadata' = [metadata EXCEPT !.api_calls = @ + ApiCalls(o)]
         /\ oplog' = Append(oplog,
                Exchange(ChatEntry("rag", TEMP_RAG, o),
                         RagPrompt(BuildContext(retrieved), pquery), o))
    /\ rpc' = "critique"
    /\ UNCHANGED <<pquery, retrieved, revised, presult, pops>>

\* RAGPipelineV2.process: the critique call, the choice of the final output
\* and the result row
RagCritique ==
    /\ UNCHANGED <<embed_count, nonPipelineVars, storeVars>>
    /\ rpc = "critique"
    /\ \E o \in PipelineChat :
         LET final_output == FinalOutput(o.text, answer)
             api_calls == metadata.api_calls + ApiCalls(o)
         IN  /\ call_count' = call_count + o.counted
             /\ revised' = o.text
             /\ metadata' = [metadata EXCEPT !.api_calls = api_calls]
             /\ oplog' = Append(oplog,
                    Exchange(ChatEntry("critique", TEMP_RAG, o),
                             CritiquePrompt(pquery, answer), o))
             /\ presult' =
                  [who |-> "rag", how |-> "return",
                   row |-> [query |-> pquery,
                            output |-> final_output,
                            metadata |->
                              [api_calls |-> api_calls,
                               chunks_retrieved |-> metadata.chunks_retrieved,
                               chunk_sources |-> metadata.chunk_sources,
                               initial_answer_words |-> WordCount(answer),
                               final_answer_words |-> WordCount(final_output),
                               retrieved_chunks |->
                                 [i \in 1..Len(retrieved) |->
                                    [source |-> retrieved[i].doc_id,
                                     title |-> retrieved[i].title,
                                     score |-> retrieved[i].relevance_score]]]]]
    /\ rpc' = "idle"
    /\ UNCHANGED <<pquery, retrieved, answer, pops>>

\* NormalMistral.process
NormalProcess ==
    /\ UNCHANGED <<embed_count, nonPipelineVars, storeVars>>
    /\ rpc = "idle"
    /\ pops < MaxProcessCalls
    /\ pops' = pops + 1
    /\ \E query \in Queries, o \in PipelineChat :
         /\ call_count' = call_count + o.counted
         /\ pquery' = query
         /\ oplog' = NormalCalls(o)
         /\ presult' = [who |-> "normal", how |-> "return",
                        row |-> [query |-> query, output |-> o.text]]
    /\ retrieved' = <<>>
    /\ answer' = NoText
    /\ revised' = NoText
    /\ metadata' = NoMetadata
    /\ UNCHANGED rpc

\* The store the pipelines are given: a new VectorStore, or one on which
\* build_index(cs) has completed (ComparisonFramework.__init__ builds the
\* index before it constructs the pipelines).  These are states StoreSpec
\* reaches by BuildStart, BuildBatch with vectors, and BuildFinish.
BatchesOf(cs) ==
    [j \in 1..((Len(cs) + BATCH_SIZE - 1) \div BATCH_SIZE) |->
       [none |-> FALSE,
        rows |-> [i \in 1..Min(BATCH_SIZE, Len(cs) - (j - 1) * BATCH_SIZE) |->
                    Embedding(cs[(j - 1) * BATCH_SIZE + i].text)]]]
StoreAfterBuild(cs) ==
    /\ chunks = cs
    /\ spc = "idle"
    /\ bi = Len(BatchesOf(cs)) * BATCH_SIZE
    /\ all_embeddings = BatchesOf(cs)
    /\ index = BuiltIndex(Rows(BatchesOf(cs)))
    /\ sresult = [NoSResult EXCEPT !.op = "build", !.how = "return"]
    /\ nops = 1
    /\ everBuilt = TRUE
    /\ buildFailed = FALSE
    /\ batchFailed = FALSE
    /\ memo = NoMemo
    /\ embed_count = Len(cs)
    /\ ties \in {"insertion", "reverse"}

(***************************************************************************)
(* The judge.  The text the judge model answers with is a sequence of      *)
(* tokens like every other text: the quote character, the punctuation of   *)
(* JSON, digits, whitespace and words.  A value of Python is a record      *)
(* tagged with its type; the members of a dict are a function of its keys, *)
(* the items of a list a sequence.  A string literal of the model holds    *)
(* one word.                                                               *)
(***************************************************************************)
Q == "\""
DigitTokens == <<"0", "1", "2", "3", "4", "5", "6", "7", "8", "9">>
IsDigit(tok) == \E d \in 1..Len(DigitTokens) : DigitTokens[d] = tok
\* int(tok) of one digit
DigitValue(tok) == (CHOOSE d \in 1..Len(DigitTokens) : DigitTokens[d] = tok) - 1

PyInt(n) == [ty |-> "int", n |-> n, s |-> "", m |-> <<>>]
PyStr(s) == [ty |-> "str", n |-> 0, s |-> s, m |-> <<>>]
PyList(items) == [ty |-> "list", n |-> 0, s |-> "", m |-> items]
PyDict(f) == [ty |-> "dict", n |-> 0, s |-> "", m |-> f]
EmptyDict == PyDict(<<>>)

\* d[k] = v, d.get(k, default) and d.pop(k, default) on the members of a dict
DictPut(f, k, v) == [x \in (DOMAIN f) \cup {k} |-> IF x = k THEN v ELSE f[x]]
DictGet(f, k, default) == IF k \in DOMAIN f THEN f[k] ELSE default
DictWithout(f, k) == [x \in (DOMAIN f) \ {k} |-> f[x]]

(***************************************************************************)
(* What the judge model writes: a JSON document is a number, a string, an  *)
(* array of documents or an object, whose members are a sequence of keys   *)
(* and documents.  Written, its members are separated by sep.              *)
(***************************************************************************)
JNum(n) == [ty |-> "int", n |-> n, s |-> "", m |-> <<>>]
JStr(s) == [ty |-> "str", n |-> 0, s |-> s, m |-> <<>>]
JArr(items) == [ty |-> "list", n |-> 0, s |-> "", m |-> items]
JObj(members) == [ty |-> "obj", n |-> 0, s |-> "", m |-> members]
Member(k, v) == [k |-> k, v |-> v]

RECURSIVE Digits(_)
Digits(n) ==
    IF n < 10 THEN <<DigitTokens[n + 1]>>
    ELSE Digits(n \div 10) \o <<DigitTokens[(n % 10) + 1]>>

RECURSIVE Written(_, _)
Written(doc, sep) ==
    CASE doc.ty = "int" -> Digits(doc.n)
      [] doc.ty = "str" -> <<Q, doc.s, Q>>
      [] doc.ty = "list" ->
            <<"[">> \o JoinWith(<<",", " ">>,
                                [i \in 1..Len(doc.m) |-> Written(doc.m[i], sep)])
                    \o <<"]">>
      [] doc.ty = "obj" ->
            <<"{">> \o JoinWith(<<",">> \o sep,
                                [i \in 1..Len(doc.m) |->
                                   <<Q, doc.m[i].k, Q, ":", " ">>
                                      \o Written(doc.m[i].v, sep)])
                    \o <<"}">>

\* the value json.loads gives for a document (of equal keys the last stays)
RECURSIVE ValueOf(_)
RECURSIVE MembersOf(_)
MembersOf(members) ==
    IF members = <<>> THEN <<>>
    ELSE LET n == Len(members)
         IN  DictPut(MembersOf(SubSeq(members, 1, n - 1)),
                     members[n].k, ValueOf(members[n].v))
ValueOf(doc) ==
    CASE doc.ty = "list" -> PyList([i \in 1..Len(doc.m) |-> ValueOf(doc.m[i])])
      [] doc.ty = "obj" -> PyDict(MembersOf(doc.m))
      [] OTHER -> doc

(***************************************************************************)
(* json.loads on a text: a descent over its tokens.  A parse gives the     *)
(* value and the position after it, or fails.                              *)
(***************************************************************************)
TokenAt(t, i) == IF i \in 1..Len(t) THEN t[i] ELSE ""
RECURSIVE SkipSpace(_, _)
SkipSpace(t, i) == IF TokenAt(t, i) \in Whitespace THEN SkipSpace(t, i + 1) ELSE i

ParseFail == [ok |-> FALSE, v |-> PyInt(0), i |-> 0]
Parsed(v, i) == [ok |-> TRUE, v |-> v, i |-> i]

\* the digits of a number after its first, most significant first
RECURSIVE ParseDigits(_, _, _)
ParseDigits(t, i, acc) ==
    IF IsDigit(TokenAt(t, i))
    THEN ParseDigits(t, i + 1, 10 * acc + DigitValue(t[i]))
    ELSE Parsed(PyInt(acc), i)

RECURSIVE ParseValue(_, _)
RECURSIVE ParseMembers(_, _, _)
RECURSIVE ParseItems(_, _, _)

\* "key": value, then a comma and more members or the closing brace
ParseMembers(t, i0, acc) ==
    LET i == SkipSpace(t, i0)
        colon == SkipSpace(t, i + 3)
    IN  IF ~(TokenAt(t, i) = Q /\ TokenAt(t, i + 2) = Q /\ TokenAt(t, colon) = ":")
        THEN ParseFail
        ELSE LET r == ParseValue(t, colon + 1)
                 j == SkipSpace(t, r.i)
                 members == DictPut(acc, t[i + 1], r.v)
             IN  IF ~r.ok THEN ParseFail
                 ELSE IF TokenAt(t, j) = "," THEN ParseMembers(t, j + 1, members)
                 ELSE IF TokenAt(t, j) = "}" THEN Parsed(PyDict(members), j + 1)
                 ELSE ParseFail

\* a value, then a comma and more items or the closing bracket
ParseItems(t, i0, acc) ==
    LET r == ParseValue(t, i0)
        j == SkipSpace(t, r.i)
    IN  IF ~r.ok THEN ParseFail
        ELSE IF TokenAt(t, j) = "," THEN ParseItems(t, j + 1, Append(acc, r.v))
        ELSE IF TokenAt(t, j) = "]" THEN Parsed(PyList(Append(acc, r.v)), j + 1)
        ELSE ParseFail

ParseValue(t, i0) ==
    LET i == SkipSpace(t, i0)
        tok == TokenAt(t, i)
    IN  CASE tok = "{" ->
               IF TokenAt(t, SkipSpace(t, i + 1)) = "}"
               THEN Parsed(EmptyDict, SkipSpace(t, i + 1) + 1)
               ELSE ParseMembers(t, i + 1, <<>>)
          [] tok = "[" ->
               IF TokenAt(t, SkipSpace(t, i + 1)) = "]"
               THEN Parsed(PyList(<<>>), SkipSpace(t, i + 1) + 1)
               ELSE ParseItems(t, i + 1, <<>>)
          [] tok = Q ->
               IF TokenAt(t, i + 1) = Q THEN Parsed(PyStr(""), i + 2)
               ELSE IF TokenAt(t, i + 2) = Q THEN Parsed(PyStr(t[i + 1]), i + 3)
               ELSE ParseFail
          [] tok = "0" -> Parsed(PyInt(0), i + 1)
          [] IsDigit(tok) -> ParseDigits(t, i + 1, DigitValue(tok))
          [] OTHER -> ParseFail

\* json.loads(t): the whole of t is one value
JsonLoads(t) ==
    LET r == ParseValue(t, 1)
    IN  IF r.ok /\ SkipSpace(t, r.i) > Len(t) THEN r ELSE ParseFail

(***************************************************************************)
(* LLMJudge._parse.  The regular expressions work on characters; on the    *)
(* tokens of the model they need to know which words hold "prefer" and     *)
(* which hold the letter a or b (in either case), and the lower-case form  *)
(* of the capitalized names of the dimensions.                             *)
(***************************************************************************)
Dims == <<"accuracy", "completeness", "balance", "clarity", "calibration",
          "helpfulness">>
DimSet == {Dims[i] : i \in 1..Len(Dims)}
Capitalized(dim) ==
    CASE dim = "accuracy" -> "Accuracy"
      [] dim = "completeness" -> "Completeness"
      [] dim = "balance" -> "Balance"
      [] dim = "clarity" -> "Clarity"
      [] dim = "calibration" -> "Calibration"
      [] dim = "helpfulness" -> "Helpfulness"
\* re.IGNORECASE
LowerCase(tok) ==
    IF \E d \in DimSet : Capitalized(d) = tok
    THEN CHOOSE d \in DimSet : Capitalized(d) = tok
    ELSE tok
PreferTokens == {"prefer", "preferred"}
TokensWithA ==
    {"accuracy", "balance", "clarity", "calibration", "Accuracy", "Balance",
     "Clarity", "Calibration", "response_a", "reasoning", "A", "Response",
     "[API_ERROR:", "status_429", "transport", "malformed", "max", "answer"}
TokensWithB ==
    {"balance", "calibration", "Balance", "Calibration", "response_b", "B"}

\* re.search(r'\{[\s\S]*\}', text): from the first "{" to the last "}"
BraceMatch(t) ==
    LET opens == {i \in 1..Len(t) : t[i] = "{"}
        closes == {i \in 1..Len(t) : t[i] = "}"}
        first == CHOOSE i \in opens : \A j \in opens : i <= j
        last == CHOOSE i \in closes : \A j \in closes : j <= i
    IN  IF opens # {} /\ closes # {} /\ first < last
        THEN [found |-> TRUE, group |-> SubSeq(t, first, last)]
        ELSE [found |-> FALSE, group |-> <<>>]

\* the characters of ["\s:]
DimSeparators == {Q, ":"} \cup Whitespace
RECURSIVE SkipSeparators(_, _)
SkipSeparators(t, i) ==
    IF TokenAt(t, i) \in DimSeparators THEN SkipSeparators(t, i + 1) ELSE i

\* re.search(rf'{dim}["\s:]+(\d)', text, re.IGNORECASE): the places where
\* it matches, and int(m.group(1)) if m else 3 for the first of them
DimMatches(t, dim) ==
    {i \in 1..Len(t) : /\ LowerCase(t[i]) = dim
                       /\ SkipSeparators(t, i + 1) > i + 1
                       /\ IsDigit(TokenAt(t, SkipSeparators(t, i + 1)))}
DimScore(t, dim) ==
    LET ms == DimMatches(t, dim)
        first == CHOOSE i \in ms : \A j \in ms : i <= j
    IN  IF ms = {} THEN 3 ELSE DigitValue(t[SkipSeparators(t, first + 1)])

\* the score of dim in the section of a label: the label is not looked at
LabelledDimScore(t, label, dim) == DimScore(t, dim)

\* re.search(r'prefer.*?A', text, re.I): "prefer", and a letter of the
\* words in S later on the same line
PreferThen(t, S) ==
    \E i, j \in 1..Len(t) :
        /\ i < j
        /\ t[i] \in PreferTokens
        /\ t[j] \in S
        /\ \A k \in i..j : t[k] # "\n"

\* the second try of _parse
Extracted(t) ==
    LET section(label) == PyDict([d \in DimSet |-> PyInt(LabelledDimScore(t, label, d))])
    IN  [response_a |-> section("response_a"),
         response_b |-> section("response_b"),
         preferred |-> PyStr(IF PreferThen(t, TokensWithA) THEN "A"
                             ELSE IF PreferThen(t, TokensWithB) THEN "B"
                             ELSE "TIE"),
         reasoning |-> PyStr("Extracted")]

\* _parse(text): the members of the dict it returns (it has no path that
\* returns None: neither regular expression search raises on a string)
Parse(t) ==
    LET match == BraceMatch(t)
        loaded == JsonLoads(match.group)
    IN  IF match.found /\ loaded.ok THEN loaded.v.m ELSE Extracted(t)

(***************************************************************************)
(* LLMJudge.evaluate, after the chat call: the verdict for the label       *)
(* assignment a_is and the judge's text, or the exception.                 *)
(***************************************************************************)
OtherPipeline(p) == IF p = "normal" THEN "rag" ELSE "normal"
ScoresKey(p) == IF p = "normal" THEN "normal_scores" ELSE "rag_scores"

DefaultVerdict ==
    [normal_scores |-> PyDict([d \in DimSet |-> PyInt(3)]),
     rag_scores |-> PyDict([d \in DimSet |-> PyInt(3)]),
     winner |-> PyStr("tie"),
     reasoning |-> PyStr("Parse failed")]

\* hash(x) raises TypeError
Unhashable(v) == v.ty \in {"list", "dict"}

\* {"A": ..., "B": ...}.get(pref, "tie") hashes pref
WinnerRaises(pref) == Unhashable(pref)

\* the verdict made from the parsed scores: the scores of A and B moved
\* under the names of their pipelines, and the winner
Remap(scores, a) ==
    DictPut(DictWithout(DictPut(DictWithout(scores, "response_a"), ScoresKey(a),
                                DictGet(scores, "response_a", EmptyDict)),
                        "response_b"),
            ScoresKey(OtherPipeline(a)),
            DictGet(DictWithout(scores, "response_a"), "response_b", EmptyDict))
Winner(pref, a) ==
    IF pref = PyStr("A") THEN a
    ELSE IF pref = PyStr("B") THEN OtherPipeline(a)
    ELSE "tie"
Preferred(scores) == DictGet(scores, "preferred", PyStr(""))
VerdictOf(scores, a) ==
    IF DOMAIN scores = {}
    THEN [raises |-> FALSE, verdict |-> DefaultVerdict]
    ELSE IF WinnerRaises(Preferred(Remap(scores, a)))
    THEN [raises |-> TRUE, verdict |-> <<>>]
    ELSE [raises |-> FALSE,
          verdict |-> DictPut(Remap(scores, a), "winner",
                              PyStr(Winner(Preferred(Remap(scores, a)), a)))]

Evaluate(a, t) == VerdictOf(Parse(t), a)

(***************************************************************************)
(* The answers of the judge model.  An answer states scores for A and for  *)
(* B and a preference, any of which may be missing or odd, in one of four  *)
(* forms: the JSON asked for, the same between other words, the same cut   *)
(* before its last brace, and prose.                                       *)
(***************************************************************************)
FullBlock(v) == JObj([i \in 1..Len(Dims) |-> Member(Dims[i], JNum(v))])
PartialBlock == JObj(<<Member("accuracy", JNum(4))>>)
OddBlock == JObj(<<Member("accuracy", JNum(9)), Member("completeness", JNum(10)),
                   Member("balance", JNum(0)), Member("clarity", JStr("high")),
                   Member("calibration", JNum(4)), Member("helpfulness", JNum(5))>>)
Reply(fmt, a, b, pref) == [fmt |-> fmt, a |-> a, b |-> b, pref |-> pref]

ReplyDoc(r) ==
    JObj([i \in 1..Len(r.a) |-> Member("response_a", r.a[i])]
         \o [i \in 1..Len(r.b) |-> Member("response_b", r.b[i])]
         \o [i \in 1..Len(r.pref) |-> Member("preferred", r.pref[i])]
         \o <<Member("reasoning", JStr("ok"))>>)

RECURSIVE Flatten(_)
Flatten(ss) == IF ss = <<>> THEN <<>> ELSE Head(ss) \o Flatten(Tail(ss))

\* "Response A" and the scores of a block, one to a line
ProseBlock(label, blocks) ==
    IF blocks = <<>> THEN <<>>
    ELSE <<"Response", " ", label, "\n">>
         \o Flatten([i \in 1..Len(blocks[1].m) |->
                       <<Capitalized(blocks[1].m[i].k), ":", " ">>
                          \o Written(blocks[1].m[i].v, <<" ">>) \o <<"\n">>])

ReplyText(r) ==
    LET json == Written(ReplyDoc(r), <<"\n">>)
    IN  CASE r.fmt = "json" -> json
          [] r.fmt = "fenced" -> <<"JSON", ":", "\n">> \o json \o <<"\n", "Done">>
          [] r.fmt = "cut" -> SubSeq(json, 1, Len(json) - 1)
          [] r.fmt = "prose" ->
                ProseBlock("A", r.a) \o ProseBlock("B", r.b)
                \o Flatten([i \in 1..Len(r.pref) |->
                              <<"I", " ", "prefer", " ">>
                                 \o Written(r.pref[i], <<" ">>) \o <<"\n">>])

\* the same opinion under the other assignment of the labels
FlipPreference(doc) ==
    IF doc = JStr("A") THEN JStr("B")
    ELSE IF doc = JStr("B") THEN JStr("A")
    ELSE doc
SwapReply(r) ==
    Reply(r.fmt, r.b, r.a, [i \in 1..Len(r.pref) |-> FlipPreference(r.pref[i])])

ReplyFormats == {"json", "fenced", "cut", "prose"}
Opinion(a, b, pref) == [a |-> a, b |-> b, pref |-> pref]
Opinions ==
    {Opinion(<<FullBlock(4)>>, <<FullBlock(2)>>, <<JStr("A")>>),
     Opinion(<<FullBlock(5)>>, <<FullBlock(5)>>, <<JStr("TIE")>>),
     Opinion(<<PartialBlock>>, <<>>, <<JStr("B")>>),
     Opinion(<<OddBlock>>, <<FullBlock(3)>>, <<>>),
     Opinion(<<FullBlock(4)>>, <<FullBlock(2)>>, <<JArr(<<JStr("A")>>)>>),
     Opinion(<<>>, <<>>, <<>>)}
JudgeReplies == {Reply(f, o.a, o.b, o.pref) : f \in ReplyFormats, o \in Opinions}
JudgeTexts == {ReplyText(r) : r \in JudgeReplies} \cup {<<"{", "}">>}

(***************************************************************************)
(* LLMJudge.  evaluate draws the assignment of the two answers to the      *)
(* labels A and B, asks the judge model, and turns its text into a         *)
(* verdict.                                                                *)
(***************************************************************************)
\* what the chat call of the judge may come back with
JudgeChat == ChatOutcomes(JudgeTexts)

\* evaluate on the texts of the model, worked out once
Pipelines == {"normal", "rag"}
Verdicts ==
    [p \in Pipelines |-> [t \in {o.text : o \in JudgeChat} |-> Evaluate(p, t)]]

NoJResult == [how |-> "none", verdict |-> <<>>]

JudgeInit ==
    /\ a_is = "none"
    /\ joutput = NoText
    /\ jresult = NoJResult
    /\ evaluations = <<>>
    /\ jlog = <<>>
    /\ jops = 0

\* variant: the counter is set, not advanced
AfterChatBug(count, o) == o.counted
\* self.call_count += 1, in chat, when a request has succeeded
AfterChat(count, o) == count + o.counted

\* what evaluate leaves behind when it asked with assignment p and got o
EvaluateEnd(p, o, e) ==
    /\ a_is' = p
    /\ joutput' = o.text
    /\ call_count' = AfterChat(call_count, o)
    /\ jlog' = <<ChatEntry("judge", TEMP_JUDGE, o)>>
    /\ jresult' = [how |-> IF e.raises THEN "raise" ELSE "return",
                   verdict |-> e.verdict]
    /\ evaluations' = IF e.raises THEN evaluations
                      ELSE Append(evaluations, e.verdict)
EvaluateStep(p, o) == EvaluateEnd(p, o, Verdicts[p][o.text])

\* LLMJudge.evaluate
JudgeEvaluate ==
    /\ UNCHANGED <<embed_count, clientIdle, chunkerVars, storeVars, pipelineVars,
                   runVars>>
    /\ jops < MaxJudgeCalls
    /\ jops' = jops + 1
    /\ \E p \in Pipelines, o \in JudgeChat : EvaluateStep(p, o)

JudgeNext == JudgeEvaluate

(***************************************************************************)
(* ComparisonFramework and main.  __init__ chunks the documents and builds *)
(* the index (the build actions of the store, once); run then takes the    *)
(* queries one after the other through the direct call, the pipeline and   *)
(* the judge.  The process calls are taken whole: retrieval as the store's *)
(* search, the chat calls by what they come back with.                     *)
(***************************************************************************)
\* TEST_QUERIES, the first MaxQueries of them
TEST_QUERIES ==
    [i \in 1..MaxQueries |->
       [id |-> i, query |-> IF i % 2 = 1 THEN TidyContent(1) ELSE MessyContent(2)]]

\* what a chat call for an answer may come back with: an answer at the
\* last request, or the sentinel after it
RunAnswer == TidyContent(6)
RunChat ==
    {o \in ChatOutcomes({RunAnswer}) :
        IF o.counted = 1 THEN o.requests = MAX_ATTEMPTS
        ELSE o.text = SentinelText("transport")}
\* what the chat call of the judge may come back with in a run
RunJudgeTexts ==
    {ReplyText(Reply("json", <<FullBlock(4)>>, <<FullBlock(2)>>, <<JStr("A")>>)),
     ReplyText(Reply("json", <<FullBlock(4)>>, <<FullBlock(2)>>,
                     <<JArr(<<JStr("A")>>)>>))}
RunJudgeChat ==
    {o \in JudgeChat :
        IF o.counted = 1 THEN o.requests = 1 /\ o.text \in RunJudgeTexts
        ELSE o.text = SentinelText("transport")}

Stage(o) == IF o.counted = 0 THEN "sentinel" ELSE "text"
NoStages == [normal |-> "none", generate |-> "none", critique |-> "none",
             judge |-> "none"]
NoAnswer == [output |-> NoText, latency |-> 0]
RemoteCall(i, stage) == [query |-> i, stage |-> stage]

RunInit ==
    /\ fpc = "new"
    /\ qi = 0
    /\ normal_result = NoAnswer
    /\ rag_result = [output |-> NoText, latency |-> 0, sources |-> {}]
    /\ stages = NoStages
    /\ results = <<>>
    /\ runlog = <<>>

\* ComparisonFramework.__init__: build_index on the chunks of the
\* documents, here one chunk
FrameworkBuild ==
    /\ fpc = "new"
    /\ \/ nops = 0 /\ BuildStart /\ Len(chunks') = 1
       \/ BuildBatch
       \/ BuildFinish

\* variant: the framework is there once build_index has ended
FrameworkBuiltBug == nops > 0 /\ spc = "idle"
\* __init__ has returned: build_index did not raise
FrameworkBuilt == nops > 0 /\ spc = "idle" /\ ~buildFailed

\* main: framework.run(), up to the first query
RunStart ==
    /\ UNCHANGED <<clientVars, chunkerVars, storeVars, pipelineVars, judgeVars>>
    /\ fpc = "new"
    /\ FrameworkBuilt
    /\ fpc' = IF MaxQueries = 0 THEN "done" ELSE "normal"
    /\ qi' = 1
    /\ stages' = NoStages
    /\ UNCHANGED <<normal_result, rag_result, results, runlog>>

\* normal_result = self.normal.process(query)
RunNormal ==
    /\ UNCHANGED <<embed_count, clientIdle, chunkerVars, storeVars, pipelineVars,
                   judgeVars>>
    /\ fpc = "normal"
    /\ \E o \in RunChat :
         /\ call_count' = AfterChat(call_count, o)
         /\ normal_result' = [output |-> o.text, latency |-> o.requests]
         /\ stages' = [NoStages EXCEPT !.normal = Stage(o)]
    /\ runlog' = Append(runlog, RemoteCall(qi, "normal"))
    /\ fpc' = "rag"
    /\ UNCHANGED <<qi, rag_result, results>>

\* rag_result = self.rag.process(query): the search, and past it the
\* generation and the critique
RunRag ==
    /\ UNCHANGED <<clientIdle, chunkerVars, pipelineVars, judgeVars>>
    /\ fpc = "rag"
    /\ \E e \in EmbedOutcomes :
         LET query == TEST_QUERIES[qi].query
             r == SearchCall(index, chunks, query, TOP_K, ties, e)
         IN  /\ SearchStep(query, TOP_K, e)
             /\ IF r.raises
                THEN /\ fpc' = "raised"
                     /\ runlog' = Append(runlog, RemoteCall(qi, "retrieve"))
                     /\ UNCHANGED <<call_count, rag_result, stages>>
                ELSE /\ fpc' = "judge"
                     /\ runlog' = runlog \o <<RemoteCall(qi, "retrieve"),
                                              RemoteCall(qi, "generate"),
                                              RemoteCall(qi, "critique")>>
                     /\ \E o1, o2 \in RunChat :
                          /\ call_count' = AfterChat(AfterChat(call_count, o1), o2)
                          /\ rag_result' =
                                [output |-> FinalOutput(o2.text, o1.text),
                                 latency |-> o1.requests + o2.requests,
                                 sources |-> {r.results[i].doc_id :
                                                 i \in 1..Len(r.results)}]
                          /\ stages' = [stages EXCEPT !.generate = Stage(o1),
                                                      !.critique = Stage(o2)]
    /\ UNCHANGED <<qi, normal_result, results>>

\* variant: the newest row goes first
RecordBug(rows, row) == <<row>> \o rows
\* self.results.append(row)
Record(rows, row) == Append(rows, row)

\* the row of the query at qi
Row(judge) ==
    [query_id |-> TEST_QUERIES[qi].id,
     normal |-> [output |-> normal_result.output,
                 latency |-> normal_result.latency,
                 words |-> WordCount(normal_result.output)],
     rag |-> [output |-> rag_result.output, latency |-> rag_result.latency,
              words |-> WordCount(rag_result.output),
              sources |-> rag_result.sources],
     judge |-> judge]

\* what run does with the outcome of evaluate: the row, or the exception
RunRecord(judged, stage) ==
    IF judged.how = "raise"
    THEN /\ fpc' = "raised"
         /\ stages' = [stages EXCEPT !.judge = stage]
         /\ UNCHANGED <<qi, results>>
    ELSE /\ results' = Record(results, Row(judged.verdict))
         /\ stages' = NoStages
         /\ qi' = qi + 1
         /\ fpc' = IF qi = MaxQueries THEN "done" ELSE "normal"

\* judge_result = self.judge.evaluate(...), the prints of the scores, and
\* self.results.append; then the next query, or after the last one the
\* summary, the plots and the report
RunJudge ==
    /\ UNCHANGED <<embed_count, clientIdle, chunkerVars, storeVars, pipelineVars>>
    /\ fpc = "judge"
    /\ jops' = jops + 1
    /\ runlog' = Append(runlog, RemoteCall(qi, "judge"))
    /\ \E p \in Pipelines, o \in RunJudgeChat :
         /\ EvaluateStep(p, o)
         /\ RunRecord(jresult', Stage(o))
    /\ UNCHANGED <<normal_result, rag_result>>

RunNext ==
    \/ FrameworkBuild
    \/ RunStart
    \/ RunNormal
    \/ RunRag
    \/ RunJudge

PipelineStart ==
    /\ call_count = 0
    /\ ClientIdleInit
    /\ ChunkerInit
    /\ \/ StoreInit /\ embed_count = 0
       \/ \E cs \in ChunkLists \ {<<>>} : StoreAfterBuild(cs)
    /\ PipelineInit
    /\ JudgeInit
    /\ RunInit

PipelineNext ==
    \/ RagRetrieve
    \/ RagGenerate
    \/ RagCritique
    \/ NormalProcess

Init ==
    ClientInit /\ ChunkerInit /\ StoreInit /\ PipelineInit /\ JudgeInit /\ RunInit

ClientSpec == Init /\ [][ClientNext]_vars

ChunkerSpec == Init /\ [][ChunkerNext]_vars

\* the knowledge base: documents are chunked, then the chunks are indexed
IngestNext ==
    \/ ChunkerNext
    \/ IngestBuild
    \/ BuildBatch
    \/ BuildFinish
IngestSpec == Init /\ [][IngestNext]_vars

StoreSpec == Init /\ [][StoreNext]_vars

PipelineSpec == PipelineStart /\ [][PipelineNext]_vars

JudgeSpec == Init /\ [][JudgeNext]_vars

RunSpec == Init /\ [][RunNext]_vars

(***************************************************************************)
(* Properties of the client.                                               *)
(***************************************************************************)
Last(s) == s[Len(s)]
Range(s) == {s[i] : i \in 1..Len(s)}
ChatEnded == op = "idle" /\ result.op = "chat"
EmbedEnded == op = "idle" /\ result.op = "embed"
IsSentinel(t) == Len(t) > 0 /\ Head(t) = SENTINEL

\* C1: chat never raises. A chat call that has ended has returned, and what
\* it returned is the body of its last, successful request, or, after five
\* failed requests, a text that begins with "[API_ERROR:", with a latency.
C1_ChatNeverRaises ==
    ChatEnded =>
        /\ result.how = "return"
        /\ result.latency \in Nat
        /\ \/ /\ Last(outcomes) = "ok"
              /\ result.text = upstream
           \/ /\ Len(outcomes) = 5
              /\ "ok" \notin Range(outcomes)
              /\ IsSentinel(result.text)

\* a chat call that met every kind of failure and ended with the sentinel
C1_Witness ==
    /\ ChatEnded
    /\ IsSentinel(result.text)
    /\ {"status_429", "transport", "http_error", "malformed"} \subseteq Range(outcomes)

\* C2: embed returns one vector per input text or raises; with its budget
\* exhausted it raises, and it never returns without vectors.
C2_EmbedVectorsOrRaise ==
    EmbedEnded =>
        \/ /\ result.how = "return"
           /\ Last(outcomes) = "ok"
           /\ result.nvec = ntexts
        \/ /\ result.how = "raise"
           /\ Len(outcomes) = 5

\* C3: a call makes at most 5 upstream requests: every request, whatever
\* its outcome, uses up one attempt, and a call that ended made between
\* one and five of them.
C3_AtMostFiveRequests ==
    /\ Len(outcomes) <= 5
    /\ op # "idle" => Len(outcomes) = attempt
    /\ (ChatEnded \/ EmbedEnded) => Len(outcomes) >= 1

\* calls that used the whole budget on permanent (4xx/5xx) failures
C3_Witness ==
    /\ EmbedEnded
    /\ outcomes = <<"http_error", "http_error", "http_error", "http_error", "http_error">>

\* C4: within one call the back-off waits never decrease.
C4_WaitsNonDecreasing ==
    \A i \in 1..(Len(waits) - 1) : waits[i] <= waits[i + 1]

\* rate limit, other failure, rate limit: waits of 2, 2 and 8
C4_Witness ==
    /\ Len(outcomes) >= 3
    /\ outcomes[1] = "status_429"
    /\ outcomes[2] = "transport"
    /\ outcomes[3] = "status_429"
    /\ waits = <<2, 2, 8>>

\* C5: a chat call that succeeds after n failed attempts returns the body
\* of the successful request, has slept n times and has raised call_count
\* by exactly 1; after two rate-limit signals the second wait is longer
\* than the first. A call in progress or ended by the sentinel leaves
\* call_count as it was.
C5_CountedOncePerCall ==
    /\ op = "chat" => call_count = count0[1]
    /\ ChatEnded =>
          IF Last(outcomes) = "ok"
          THEN /\ result.text = upstream
               /\ call_count = count0[1] + 1
               /\ Len(waits) = Len(outcomes) - 1
               /\ (Len(outcomes) = 3 /\ outcomes[1] = "status_429"
                                     /\ outcomes[2] = "status_429")
                     => (Len(waits) = 2 /\ waits[1] < waits[2])
          ELSE /\ IsSentinel(result.text)
               /\ call_count = count0[1]

\* two rate-limit signals, then success
C5_Witness ==
    /\ ChatEnded
    /\ outcomes = <<"status_429", "status_429", "ok">>
    /\ result.text \in Payloads
    /\ call_count = count0[1] + 1

\* a chat call that ended with the sentinel after an earlier counted call
C5_WitnessSentinel ==
    /\ ChatEnded
    /\ IsSentinel(result.text)
    /\ call_count = 1

(***************************************************************************)
(* Properties of the chunker.                                              *)
(***************************************************************************)
ValidConfig == 0 <= chunker.overlap /\ chunker.overlap < chunker.chunk_size
\* the documents the outer loop has finished
Finished == {d \in 1..Len(documents) : cpc # "ready" /\ cpc # "new" /\ d < di}
DocWords(d) == Split(documents[d].content)
\* the positions in all_chunks of the chunks cut from document d
DocChunks(d) == {i \in 1..Len(all_chunks) : spans[i].doc = d}
ChunkWords(i) == Split(all_chunks[i].text)

\* C6: a document of at most chunk_size words (an empty one too) gets
\* exactly one chunk, whose text is the document's content, unchanged.
C6_ShortDocumentOneChunk ==
    \A d \in Finished :
        Len(DocWords(d)) <= chunker.chunk_size =>
            /\ Cardinality(DocChunks(d)) = 1
            /\ \A i \in DocChunks(d) : all_chunks[i].text = documents[d].content

\* an empty document and one with irregular whitespace, each kept whole
C6_Witness ==
    /\ cpc = "done"
    /\ \E d \in Finished : DocWords(d) = <<>> /\ Cardinality(DocChunks(d)) = 1
    /\ \E d \in Finished :
         /\ Len(DocWords(d)) >= 2
         /\ Len(DocWords(d)) <= chunker.chunk_size
         /\ Join(DocWords(d)) # documents[d].content

\* C7: with 0 <= overlap < chunk_size, consecutive chunks of a document of
\* more than chunk_size words share exactly overlap words: the last overlap
\* words of a chunk are the first overlap words of the next one, for every
\* pair, the final one included.
C7_ExactOverlap ==
    ValidConfig =>
        \A d \in Finished :
            Len(DocWords(d)) > chunker.chunk_size =>
                \A i \in DocChunks(d) :
                    (i + 1) \in DocChunks(d) =>
                        LET a == ChunkWords(i)
                            b == ChunkWords(i + 1)
                            ov == chunker.overlap
                        IN  /\ Len(a) >= ov
                            /\ Len(b) >= ov
                            /\ SubSeq(a, Len(a) - ov + 1, Len(a)) = SubSeq(b, 1, ov)
                            /\ spans[i].to - spans[i + 1].from = ov

\* C7, what the code does: consecutive chunks share min(overlap, length of
\* the later chunk) words; a trailing chunk shorter than overlap lies wholly
\* inside the chunk before it.
C7_ActualOverlap ==
    ValidConfig =>
        \A d \in Finished :
            Len(DocWords(d)) > chunker.chunk_size =>
                \A i \in DocChunks(d) :
                    (i + 1) \in DocChunks(d) =>
                        LET a == ChunkWords(i)
                            b == ChunkWords(i + 1)
                            m == Min(chunker.overlap, Len(b))
                        IN  /\ Len(a) >= m
                            /\ SubSeq(a, Len(a) - m + 1, Len(a)) = SubSeq(b, 1, m)
                            /\ spans[i].to - spans[i + 1].from = m

\* C8: with 0 <= overlap < chunk_size every word position of a document is
\* inside at least one of its chunks, which holds that word there, and the
\* chunks of a document come in document order.
C8_EveryWordCovered ==
    ValidConfig =>
        \A d \in Finished :
            /\ \A pos \in 1..Len(DocWords(d)) :
                 \E i \in DocChunks(d) :
                    /\ spans[i].from < pos
                    /\ pos <= spans[i].to
                    /\ pos - spans[i].from <= Len(ChunkWords(i))
                    /\ ChunkWords(i)[pos - spans[i].from] = DocWords(d)[pos]
            /\ \A i, j \in DocChunks(d) : i < j => spans[i].from < spans[j].from

\* a document cut into three or more overlapping windows
C8_Witness ==
    /\ cpc = "done"
    /\ ValidConfig
    /\ chunker.overlap > 0
    /\ \E d \in Finished :
         /\ Len(DocWords(d)) > chunker.chunk_size
         /\ Cardinality(DocChunks(d)) >= 3

\* C9: the chunk_ids of a call are 0, 1, ..., N-1 in emission order; the
\* chunks of a document precede those of every later document; a chunk
\* carries the id of the document it was cut from.
C9_ChunkIdsSequential ==
    /\ chunk_id = Len(all_chunks)
    /\ \A i \in 1..Len(all_chunks) :
         /\ all_chunks[i].chunk_id = i - 1
         /\ all_chunks[i].doc_id = documents[spans[i].doc].id
         /\ all_chunks[i].text \in
               { documents[spans[i].doc].content,
                 Join(PySlice(DocWords(spans[i].doc), spans[i].from, spans[i].to)) }
         /\ \A j \in 1..Len(all_chunks) : i < j => spans[i].doc <= spans[j].doc

\* two documents, the first cut into windows, the second kept whole
C9_Witness ==
    /\ cpc = "done"
    /\ Len(documents) = 2
    /\ Cardinality(DocChunks(1)) >= 2
    /\ Cardinality(DocChunks(2)) = 1
    /\ all_chunks[Len(all_chunks)].chunk_id = Len(all_chunks) - 1
    /\ all_chunks[Len(all_chunks)].doc_id = documents[2].id

\* ceil(n / s) for s > 0
CeilDiv(n, s) == (n + s - 1) \div s
\* the first of the chunks of document d
FirstChunk(d) == CHOOSE i \in DocChunks(d) : \A j \in DocChunks(d) : i <= j
Step == chunker.chunk_size - chunker.overlap
IndexBuilt == spc = "idle" /\ sresult.op = "build" /\ sresult.how = "return"

\* chunk_documents is running
Chunking == cpc \in {"doc", "window"}
\* what is left of the call: documents to go, the decision about the
\* current document, words of it beyond start
Remaining ==
    <<Len(documents) + 1 - di,
      IF cpc = "doc" THEN 1 ELSE 0,
      IF cpc = "window" /\ start < Len(words) THEN Len(words) - start ELSE 0>>
LexLess(a, b) ==
    \/ a[1] < b[1]
    \/ a[1] = b[1] /\ a[2] < b[2]
    \/ a[1] = b[1] /\ a[2] = b[2] /\ a[3] < b[3]

\* the counts of C31 in one state
ChunkCounting ==
    ValidConfig =>
        /\ \A d \in Finished :
             LET n == Len(DocWords(d))
             IN  /\ Cardinality(DocChunks(d)) =
                       IF n <= chunker.chunk_size THEN 1 ELSE CeilDiv(n, Step)
                 /\ \A i \in DocChunks(d) :
                       spans[i].from = (i - FirstChunk(d)) * Step
        /\ cpc = "window" =>
             /\ start = loops * Step
             /\ loops <= CeilDiv(Len(words), Step)
             /\ loops < MaxLoop
        /\ IndexBuilt =>
             /\ chunks = all_chunks
             /\ ~index.none
             /\ Len(index.vecs) = Len(all_chunks)

\* C31: with 0 <= overlap < chunk_size, chunk_documents terminates (a step
\* is always possible until it returns, and every step leaves less to do); a
\* document of n words yields 1 chunk if n <= chunk_size and otherwise
\* ceil(n / (chunk_size - overlap)) chunks, whose windows start at 0, step,
\* 2*step, ... below n; an index built from the chunks of a call holds as
\* many vectors as there are chunks.
C31_ChunkCount ==
    /\ []ChunkCounting
    /\ []((ValidConfig /\ Chunking) => ENABLED ChunkerNext)
    /\ [][(ValidConfig /\ Chunking) =>
             (cpc' = "done" \/ LexLess(Remaining', Remaining))]_vars

\* two documents, one cut into two windows and one kept whole, indexed with
\* three vectors
C31_Witness ==
    /\ ValidConfig
    /\ chunker.overlap > 0
    /\ IndexBuilt
    /\ Len(documents) = 2
    /\ Len(DocWords(1)) > chunker.chunk_size
    /\ Cardinality(DocChunks(1)) = 2
    /\ Cardinality(DocChunks(2)) = 1
    /\ Len(index.vecs) = 3

\* C10: a chunker with overlap >= chunk_size is rejected when it is
\* constructed, so no such chunker ever chunks documents.
C10_BadConfigRejected ==
    cpc \in {"doc", "window", "done"} => chunker.overlap < chunker.chunk_size

(***************************************************************************)
(* Properties of the vector store.                                         *)
(***************************************************************************)
SearchReturned == sresult.op = "search" /\ sresult.how = "return"
QueryVector == Normalize(Embedding(sresult.query))

\* C11: whenever the store is at rest - before a build, after a build that
\* succeeded, after a build or rebuild that failed - the index holds as
\* many vectors as the store holds chunks.
C11_VectorCountIsChunkCount ==
    spc = "idle" => Len(index.vecs) = Len(chunks)

\* C12: a build_index in which an embed call failed raises, and after a
\* build_index that raised every search on the store fails.
C12_FailedBuildIsNotBuilt ==
    /\ (sresult.op = "build" /\ batchFailed) => sresult.how = "raise"
    /\ (sresult.op = "search" /\ buildFailed) => sresult.how = "raise"

\* the texts of the j-th batch of the stored chunks
BatchTexts(j) ==
    LET from == BATCH_SIZE * (j - 1)
        n == Min(BATCH_SIZE, Len(chunks) - from)
    IN  [i \in 1..n |-> chunks[from + i].text]
\* the batches embedded so far are the leading batches of the chunk list,
\* in order, each of at most BATCH_SIZE consecutive chunks
BatchesInOrder ==
    /\ bi = BATCH_SIZE * Len(all_embeddings)
    /\ \A j \in 1..Len(all_embeddings) :
         /\ BATCH_SIZE * (j - 1) < Len(chunks)
         /\ ~all_embeddings[j].none =>
               /\ Len(all_embeddings[j].rows) <= BATCH_SIZE
               /\ all_embeddings[j].rows =
                     [i \in 1..Len(BatchTexts(j)) |-> Embedding(BatchTexts(j)[i])]
\* the latest build_index returned
LatestBuildReturned == spc = "idle" /\ everBuilt /\ ~buildFailed
\* every chunk was embedded once, and its vector stands at its position
VectorsFollowChunks ==
    LatestBuildReturned =>
        /\ ~index.none
        /\ Len(Rows(all_embeddings)) = Len(chunks)
        /\ Len(index.vecs) = Len(chunks)
        /\ \A i \in 1..Len(chunks) :
              index.vecs[i] = Normalize(Embedding(chunks[i].text))
\* a step of the batch loop: one embed call for the next batch, after
\* the one before it has returned
BatchStep ==
    (spc = "building" /\ all_embeddings' # all_embeddings) =>
        /\ chunks' = chunks
        /\ bi < Len(chunks)
        /\ bi' = bi + BATCH_SIZE
        /\ all_embeddings' = Append(all_embeddings, Last(all_embeddings'))
        /\ embed_count' - embed_count = Len(Last(all_embeddings').rows)

\* C32: build_index embeds every chunk text exactly once, in batches of at
\* most 10 consecutive chunks, one batch after the other in chunk order;
\* after a build that returned, the vector at position i of the index is
\* the normalized embedding of the chunk at position i of the store.
C32_BatchesInChunkOrder ==
    /\ [](BatchesInOrder /\ VectorsFollowChunks)
    /\ [][BatchStep]_vars

\* a build over more chunks than one batch holds, which returned
C32_Witness ==
    /\ LatestBuildReturned
    /\ sresult.op = "build"
    /\ Len(chunks) = BATCH_SIZE + 1
    /\ Len(all_embeddings) = 2
    /\ Len(all_embeddings[1].rows) = BATCH_SIZE
    /\ Len(all_embeddings[2].rows) = 1
    /\ Len(index.vecs) = BATCH_SIZE + 1

\* C13: a search on a store on which no build_index has completed fails;
\* it returns no result list.
C13_SearchBeforeBuildFails ==
    (sresult.op = "search" /\ ~everBuilt) =>
        /\ sresult.how = "raise"
        /\ sresult.results = <<>>

\* a search whose query was embedded, on a store whose only build failed
C13_Witness ==
    /\ sresult.op = "search"
    /\ sresult.how = "raise"
    /\ ~everBuilt
    /\ buildFailed
    /\ chunks # <<>>
    /\ embed_count >= 1

\* C14: a search that returns gives at most min(k, number of chunks)
\* results; the slots the index could not fill give none.
C14_AtMostMinKResults ==
    SearchReturned => Len(sresult.results) <= Min(sresult.k, Len(chunks))

\* C15: the results are in non-increasing order of relevance_score, and
\* the relevance_score of a result is the inner product of the normalized
\* query vector and the normalized vector of that chunk.
C15_ScoresOrderedAndExact ==
    SearchReturned =>
        /\ \A i \in 1..Len(sresult.results) :
              sresult.results[i].relevance_score
                 = InnerProduct(QueryVector,
                                Normalize(Embedding(sresult.results[i].text)))
        /\ \A i, j \in 1..Len(sresult.results) :
              i < j => ~ScoreGT(sresult.results[j].relevance_score,
                                sresult.results[i].relevance_score)

\* C15, for the searches that ask for no more results than the index built
\* by the latest build_index holds.
C15_ScoresOfFilledSlots ==
    (SearchReturned /\ ~buildFailed /\ sresult.k <= Len(index.vecs)) =>
        /\ \A i \in 1..Len(sresult.results) :
              sresult.results[i].relevance_score
                 = InnerProduct(QueryVector,
                                Normalize(Embedding(sresult.results[i].text)))
        /\ \A i, j \in 1..Len(sresult.results) :
              i < j => ~ScoreGT(sresult.results[j].relevance_score,
                                sresult.results[i].relevance_score)

\* C16: with no build in between, a search with the query and k of an
\* earlier search returns the same list, whatever searches ran between.
C16_SearchIsDeterministic ==
    (SearchReturned /\ memo.set /\ memo.query = sresult.query /\ memo.k = sresult.k)
        => sresult.results = memo.results

\* the same search again, after a different one
C16_Witness ==
    /\ SearchReturned
    /\ memo.set
    /\ memo.between
    /\ memo.query = sresult.query
    /\ memo.k = sresult.k
    /\ Len(sresult.results) >= 2

\* C17: a search changes neither the stored chunks nor the stored vectors,
\* and no stored chunk ever carries a relevance_score.
C17_SearchLeavesStoreUnchanged ==
    /\ [](\A i \in 1..Len(chunks) : "relevance_score" \notin DOMAIN chunks[i])
    /\ [][(sresult'.op = "search" /\ nops' # nops)
            => (chunks' = chunks /\ index' = index)]_vars

\* a search that returned scored copies of stored chunks
C17_Witness ==
    /\ SearchReturned
    /\ Len(sresult.results) >= 2
    /\ \A i \in 1..Len(sresult.results) :
          /\ "relevance_score" \in DOMAIN sresult.results[i]
          /\ \E n \in 1..Len(chunks) : chunks[n].chunk_id = sresult.results[i].chunk_id

(***************************************************************************)
(* Properties of the pipelines.                                            *)
(***************************************************************************)
RagReturned == presult.who = "rag" /\ presult.how = "return"
RagRaised == presult.who = "rag" /\ presult.how = "raise"
NormalReturned == presult.who = "normal" /\ presult.how = "return"
ChatCalls == SelectSeq(oplog, LAMBDA e : e.fn = "chat")

\* C18: the final output of RAGPipelineV2.process has at least 0.7 x the
\* words of the draft; it is the revision exactly when the revision has at
\* least 0.7 x the words of the draft, and the draft verbatim otherwise.
C18_FinalOutputKeepsLength ==
    RagReturned =>
        LET r == WordCount(revised)
            n == WordCount(answer)
            out == presult.row.output
        IN  /\ 10 * WordCount(out) >= 7 * n
            /\ (out = revised) <=> (10 * r >= 7 * n)
            /\ (10 * r < 7 * n) => out = answer
            /\ presult.row.metadata.initial_answer_words = n
            /\ presult.row.metadata.final_answer_words = WordCount(out)

\* a revision of 3 words is refused for a draft of 7 or 10
C18_Witness ==
    /\ RagReturned
    /\ WordCount(revised) > 0
    /\ 10 * WordCount(revised) < 7 * WordCount(answer)
    /\ presult.row.output = answer

\* a revision of 7 words is accepted for a draft of 10
C18_WitnessAccepted ==
    /\ RagReturned
    /\ WordCount(revised) < WordCount(answer)
    /\ 10 * WordCount(revised) = 7 * WordCount(answer)
    /\ presult.row.output = revised

\* C19 as stated: every process call of the RAG pipeline, however it ends,
\* makes exactly two chat calls, and a call that returns records api_calls = 2.
C19_TwoCallsEveryProcess ==
    (RagReturned \/ RagRaised) =>
        /\ Len(ChatCalls) = 2
        /\ RagReturned => presult.row.metadata.api_calls = 2

\* C19, amended: a process call whose retrieval succeeded makes exactly two
\* chat calls, the generation and then the critique, and records
\* api_calls = 2, whatever the client retried and whether or not a call
\* came back with the sentinel; a process call whose retrieval raised makes
\* no chat call and returns nothing.
C19_TwoCallsAfterRetrieval ==
    /\ RagReturned =>
          /\ Len(ChatCalls) = 2
          /\ ChatCalls[1].system = "rag"
          /\ ChatCalls[2].system = "critique"
          /\ presult.row.metadata.api_calls = 2
          /\ metadata.api_calls = 2
    /\ RagRaised =>
          /\ ChatCalls = <<>>
          /\ presult.row = NoRow
    /\ rpc = "critique" => (Len(ChatCalls) = 1 /\ metadata.api_calls = 1)
    /\ rpc = "generate" => (ChatCalls = <<>> /\ metadata.api_calls = 0)

\* the generation was retried and the critique came back with the sentinel
C19_Witness ==
    /\ RagReturned
    /\ ChatCalls[1].retried
    /\ ChatCalls[1].outcome = "text"
    /\ ChatCalls[2].outcome = "sentinel"
    /\ presult.row.metadata.api_calls = 2

\* C20: a NormalMistral.process call makes exactly one chat call, at a
\* temperature above the RAG pipeline's; it makes no embedding request, no
\* search on the store and no critique call.
C20_NormalIsOneChatCall ==
    /\ [](NormalReturned =>
            /\ Len(oplog) = 1
            /\ oplog[1].fn = "chat"
            /\ oplog[1].system = "generic"
            /\ oplog[1].temperature > TEMP_RAG)
    /\ [](\A i \in 1..Len(oplog) :
            (oplog[i].fn = "chat" /\ oplog[i].system # "generic")
               => oplog[i].temperature = TEMP_RAG)
    /\ [][(presult'.who = "normal" /\ pops' # pops) =>
             /\ embed_count' = embed_count
             /\ call_count' \in {call_count, call_count + 1}
             /\ UNCHANGED storeVars]_vars

\* the baseline answered, over a store that holds an index
C20_Witness ==
    /\ NormalReturned
    /\ oplog[1].outcome = "text"
    /\ call_count = 1
    /\ ~index.none

\* the functions called so far by the current or last process call
CallOrder == [i \in 1..Len(oplog) |->
                IF oplog[i].fn = "chat" THEN oplog[i].system ELSE oplog[i].fn]
RagStages == <<"search", "embed", "rag", "critique">>
\* the retrieval of the call: the search on the store for its query
RetrievalOfCall ==
    /\ sresult.op = "search"
    /\ sresult.how = "return"
    /\ sresult.query = pquery
    /\ sresult.k = TOP_K
    /\ retrieved = sresult.results

\* C33: within one RAGPipelineV2.process call the stages run in the order
\* retrieval (one search with one query embedding), generation, critique;
\* the generation prompt is built from the results of that retrieval and
\* the query; the critique call comes after the generation call has
\* returned, and its prompt holds exactly the draft generation returned.
C33_StagesInOrder ==
    (presult.who # "normal" /\ oplog # <<>>) =>
        /\ Len(oplog) <= Len(RagStages)
        /\ CallOrder = SubSeq(RagStages, 1, Len(oplog))
        /\ rpc = "generate" => Len(oplog) = 2
        /\ rpc = "critique" => Len(oplog) = 3
        /\ RagReturned => Len(oplog) = 4
        /\ Len(oplog) >= 3 =>
              /\ oplog[1].outcome = "return"
              /\ oplog[2].outcome = "vectors"
              /\ RetrievalOfCall
              /\ oplog[3].prompt =
                    RagPrompt(BuildContext(sresult.results), pquery)
              /\ oplog[3].returned = answer
        /\ Len(oplog) = 4 =>
              /\ oplog[4].prompt.template = "critique_prompt"
              /\ oplog[4].prompt.query = pquery
              /\ oplog[4].prompt.answer = oplog[3].returned
              /\ oplog[4].returned = revised

\* a call that returned: two chunks retrieved and shown to the generation,
\* whose draft of three words was handed to the critique
C33_Witness ==
    /\ RagReturned
    /\ Len(sresult.results) >= 2
    /\ Len(oplog[3].prompt.context) = Len(sresult.results)
    /\ oplog[3].prompt.context[1].text = sresult.results[1].text
    /\ oplog[3].returned = TidyContent(3)
    /\ oplog[4].prompt.answer = TidyContent(3)
    /\ oplog[4].returned # oplog[3].returned

\* C34: when the draft has no words, RAGPipelineV2.process takes the
\* revision as the final output whatever its length, and the call returns
\* (there is no ratio to compute, so nothing fails).
C34_EmptyDraftAcceptsRevision ==
    /\ []((RagReturned /\ WordCount(answer) = 0) =>
            /\ presult.row.output = revised
            /\ presult.row.metadata.initial_answer_words = 0
            /\ presult.row.metadata.final_answer_words = WordCount(revised))
    /\ [][(rpc = "critique" /\ WordCount(answer) = 0) =>
            (presult'.who = "rag" /\ presult'.how = "return")]_vars

\* an empty draft and a revision of ten words, which is the output
C34_Witness ==
    /\ RagReturned
    /\ oplog[3].outcome = "text"
    /\ WordCount(answer) = 0
    /\ WordCount(revised) = 10
    /\ presult.row.output = revised

\* C36: when the generation call succeeded and the critique call came back
\* with the sentinel, the final output of RAGPipelineV2.process is the
\* draft and not the sentinel, for drafts of a few words too.
C36_SentinelNeverFinalOutput ==
    (RagReturned /\ oplog[3].outcome = "text" /\ oplog[4].outcome = "sentinel") =>
        /\ presult.row.output = answer
        /\ (IsSentinel(presult.row.output) => IsSentinel(answer))

(***************************************************************************)
(* Further properties of the client.                                       *)
(***************************************************************************)
\* the call in progress, or the one that ended last
CurrentOp == IF op # "idle" THEN op ELSE result.op
\* what chat, and what embed, takes for a rate limit
RateLimited(o) ==
    \/ o = "status_429"
    \/ CurrentOp = "chat" /\ o = "http_error_429"

C30_WitnessChat ==
    /\ CurrentOp = "chat"
    /\ waits = <<2, 4, 8, 16, 32>>

(***************************************************************************)
(* Properties of the judge.                                                *)
(***************************************************************************)
JudgeReturned == jops > 0 /\ jresult.how = "return"
JudgeRaised == jops > 0 /\ jresult.how = "raise"
HasKey(f, k) == k \in DOMAIN f
ScoreKeys == {"normal_scores", "rag_scores"}
\* the first try of _parse succeeds on t
Structured(t) == BraceMatch(t).found /\ JsonLoads(BraceMatch(t).group).ok
\* the second try finds a score or a preference in t
Extractable(t) ==
    \/ \E d \in DimSet : DimMatches(t, d) # {}
    \/ PreferThen(t, TokensWithA)
    \/ PreferThen(t, TokensWithB)
ReplyTexts == [r \in JudgeReplies |-> ReplyText(r)]
\* evaluate under the other assignment, on the answer with A and B exchanged
SwappedVerdicts ==
    [p \in Pipelines |->
       [r \in JudgeReplies |->
          Evaluate(OtherPipeline(p), ReplyText(SwapReply(r)))]]
SameUnderSwap(r) ==
    LET e == SwappedVerdicts[a_is][r]
    IN  /\ ~e.raises
        /\ e.verdict["winner"] = jresult.verdict["winner"]
        /\ e.verdict["normal_scores"] = jresult.verdict["normal_scores"]
        /\ e.verdict["rag_scores"] = jresult.verdict["rag_scores"]

\* C21: the verdict does not depend on the assignment of the labels. When
\* evaluate has returned a verdict for an answer of the judge, evaluate with
\* the pipelines assigned the other way round, on the same answer with A
\* and B exchanged in its scores and its preference, returns the same
\* winner, the same normal_scores and the same rag_scores.
C21_VerdictIgnoresLabels ==
    JudgeReturned =>
        \A r \in JudgeReplies : joutput = ReplyTexts[r] => SameUnderSwap(r)

\* C21, for the answers that _parse reads as structured data.
C21_StructuredVerdictIgnoresLabels ==
    JudgeReturned =>
        \A r \in JudgeReplies :
            (joutput = ReplyTexts[r] /\ Structured(joutput)) => SameUnderSwap(r)

AllNeutral(v) ==
    /\ \A k \in ScoreKeys :
          /\ HasKey(v, k)
          /\ v[k].ty = "dict"
          /\ DOMAIN v[k].m = DimSet
          /\ \A d \in DimSet : v[k].m[d] = PyInt(3)
    /\ HasKey(v, "winner")
    /\ v["winner"] = PyStr("tie")

\* C22: evaluate never raises. Every evaluate call returns a verdict,
\* whatever the text of the judge: structured data of any shape, malformed
\* data, prose or the sentinel of the client; and a text that is neither
\* structured data nor has anything the patterns find gives 3 on every
\* dimension for both pipelines and the winner "tie".
C22_EvaluateNeverRaises ==
    jops > 0 =>
        /\ jresult.how = "return"
        /\ (~Structured(joutput) /\ ~Extractable(joutput))
              => AllNeutral(jresult.verdict)

\* C22, its second half: a text with nothing to parse gives the neutral
\* verdict.
C22_NeutralWhenNothingParsed ==
    (jops > 0 /\ ~Structured(joutput) /\ ~Extractable(joutput)) =>
        /\ jresult.how = "return"
        /\ AllNeutral(jresult.verdict)

\* C23: every verdict that evaluate returns holds, for the normal and for
\* the rag pipeline, a score for each of the six dimensions.
C23_AllDimensionsPresent ==
    JudgeReturned =>
        \A k \in ScoreKeys :
            /\ HasKey(jresult.verdict, k)
            /\ jresult.verdict[k].ty = "dict"
            /\ DimSet \subseteq DOMAIN jresult.verdict[k].m

\* C23, for the texts that are not structured data: the patterns and the
\* default fill every dimension.
C23_AllDimensionsWhenNotStructured ==
    (JudgeReturned /\ ~Structured(joutput)) =>
        \A k \in ScoreKeys :
            /\ HasKey(jresult.verdict, k)
            /\ jresult.verdict[k].ty = "dict"
            /\ DOMAIN jresult.verdict[k].m = DimSet

\* the scores a verdict holds for the six dimensions
DimensionScores(v) ==
    UNION {{v[k].m[d] : d \in DimSet \cap DOMAIN v[k].m} :
             k \in {x \in ScoreKeys : HasKey(v, x) /\ v[x].ty = "dict"}}

\* C24: every score of a dimension in a verdict that evaluate returns is
\* an integer from 1 to 5, whether the text was read as structured data,
\* by the patterns, or not at all.
C24_ScoresAreOneToFive ==
    JudgeReturned =>
        \A x \in DimensionScores(jresult.verdict) :
            x.ty = "int" /\ x.n \in 1..5

\* C24, for the texts in which nothing is found: the default scores.
C24_DefaultScoresAreOneToFive ==
    (JudgeReturned /\ ~Structured(joutput) /\ ~Extractable(joutput)) =>
        /\ DimensionScores(jresult.verdict) # {}
        /\ \A x \in DimensionScores(jresult.verdict) :
              x.ty = "int" /\ x.n \in 1..5

Remapped(v) ==
    /\ HasKey(v, "winner")
    /\ v["winner"] \in {PyStr(p) : p \in Pipelines \cup {"tie"}}
    /\ \A k \in ScoreKeys : HasKey(v, k)
    /\ ~HasKey(v, "response_a")
    /\ ~HasKey(v, "response_b")

\* C25: a verdict that evaluate returns is keyed by pipeline and not by
\* label: its winner is normal, rag or tie, its scores are under
\* normal_scores and rag_scores, and it holds no response_a or response_b
\* entry and no preference whose value is A or B.
C25_NoLabelInVerdict ==
    JudgeReturned =>
        /\ Remapped(jresult.verdict)
        /\ ~(/\ HasKey(jresult.verdict, "preferred")
             /\ jresult.verdict["preferred"] \in {PyStr("A"), PyStr("B")})

\* C25, without the preference: the winner and the score sets are keyed
\* by pipeline.
C25_WinnerAndScoresRemapped == JudgeReturned => Remapped(jresult.verdict)

\* the single-digit scores a reply states for dim in the blocks of a label
Stated(blocks, dim) ==
    UNION {{blocks[i].m[j].v.n : j \in {x \in 1..Len(blocks[i].m) :
                                          /\ blocks[i].m[x].k = dim
                                          /\ blocks[i].m[x].v.ty = "int"
                                          /\ blocks[i].m[x].v.n \in 0..9}}
             : i \in 1..Len(blocks)}
\* the replies of the judge model that read as the text t
RepliesOf(t) == {r \in JudgeReplies : ReplyTexts[r] = t}
\* the verdict holds for a label the scores stated in the blocks of the label
ReadFromBlock(v, p, blocks) ==
    \A d \in DimSet :
        \A x \in Stated(blocks, d) : v[ScoresKey(p)].m[d] = PyInt(x)

\* C35: when the answer of the judge is read by the patterns, the scores of
\* label A are those of A's block and the scores of label B those of B's
\* block, so an answer that states different scores for A and B gives
\* different scores to the two labels.
C35_LabelsReadFromOwnBlocks ==
    (JudgeReturned /\ ~Structured(joutput)) =>
        \A r \in RepliesOf(joutput) :
            /\ ReadFromBlock(jresult.verdict, a_is, r.a)
            /\ ReadFromBlock(jresult.verdict, OtherPipeline(a_is), r.b)
            /\ (\E d \in DimSet :
                  \E x \in Stated(r.a, d), y \in Stated(r.b, d) : x # y)
                  => jresult.verdict[ScoresKey(a_is)]
                        # jresult.verdict[ScoresKey(OtherPipeline(a_is))]

\* C35, what the code does: the pattern of a dimension is searched in the
\* whole text for either label, so both labels get the same scores.
C35_LabelsShareTheFirstMatch ==
    (JudgeReturned /\ ~Structured(joutput)) =>
        /\ jresult.verdict["normal_scores"] = jresult.verdict["rag_scores"]
        /\ \A d \in DimSet :
              jresult.verdict["normal_scores"].m[d] = PyInt(DimScore(joutput, d))

(***************************************************************************)
(* Properties of the run.                                                  *)
(***************************************************************************)
StageOrder == <<"normal", "retrieve", "generate", "critique", "judge">>
StageRank(stage) == CHOOSE n \in 1..Len(StageOrder) : StageOrder[n] = stage

\* C26: run takes the queries in input order and one at a time. The i-th
\* row of results is that of the i-th query; in the order in which the
\* remote calls were made, no call of a query comes after a call of a later
\* query, the calls of one query are the direct call, the retrieval, the
\* generation, the critique and the judge in this order, and a call is made
\* for a query only when every query before it has its row.
C26_QueriesInOrder ==
    /\ \A i \in 1..Len(results) : results[i].query_id = TEST_QUERIES[i].id
    /\ \A i, j \in 1..Len(runlog) :
          i < j =>
             /\ runlog[i].query <= runlog[j].query
             /\ runlog[i].query = runlog[j].query
                   => StageRank(runlog[i].stage) < StageRank(runlog[j].stage)
    /\ \A j \in 1..Len(runlog) : runlog[j].query <= Len(results) + 1

C26_Witness ==
    /\ fpc = "done"
    /\ Len(results) >= 2
    /\ results[2].query_id = TEST_QUERIES[2].id
    /\ runlog[Len(StageOrder)] = RemoteCall(1, "judge")
    /\ runlog[Len(StageOrder) + 1] = RemoteCall(2, "normal")

SentinelSoFar ==
    "sentinel" \in {stages.normal, stages.generate, stages.critique}
\* the step has appended the complete row of the query at qi
RowRecorded ==
    /\ Len(results') = Len(results) + 1
    /\ jresult'.how = "return"
    /\ results'[Len(results')] =
          [query_id |-> TEST_QUERIES[qi].id,
           normal |-> [output |-> normal_result.output,
                       latency |-> normal_result.latency,
                       words |-> WordCount(normal_result.output)],
           rag |-> [output |-> rag_result.output,
                    latency |-> rag_result.latency,
                    words |-> WordCount(rag_result.output),
                    sources |-> rag_result.sources],
           judge |-> jresult'.verdict]
    /\ fpc' = IF qi = MaxQueries THEN "done" ELSE "normal"
SentinelStagesGoOn ==
    /\ (fpc = "rag" /\ sresult'.how = "return") =>
          /\ fpc' = "judge"
          /\ runlog' = runlog \o <<RemoteCall(qi, "retrieve"),
                                   RemoteCall(qi, "generate"),
                                   RemoteCall(qi, "critique")>>
    /\ (fpc = "judge" /\ SentinelSoFar) =>
          /\ runlog' = Append(runlog, RemoteCall(qi, "judge"))
          /\ RowRecorded

\* C27: a query whose generation fails for good still goes through every
\* later stage and gets its row. When the direct call, the generation call
\* or the critique call of a query has returned the sentinel, the critique
\* is still called after the generation, the judge is still called, and
\* the call of the judge is followed by one complete row for the query
\* (both outputs, latencies, word counts and the verdict), after which the
\* run goes on to the next query.
C27_SentinelQueryGetsItsRow == [][SentinelStagesGoOn]_vars

\* C27, for the queries on which evaluate returns.
C27_SentinelQueryGetsItsRowIfJudged ==
    [][(fpc = "judge" => jresult'.how = "return") => SentinelStagesGoOn]_vars

\* C28: when embedding fails while the index is built, no query is
\* processed: no chat call for an answer, no call of the judge and no row.
C28_NoRunAfterFailedBuild ==
    batchFailed =>
        /\ fpc = "new"
        /\ runlog = <<>>
        /\ results = <<>>
        /\ call_count = 0
        /\ jops = 0

C28_Witness ==
    /\ batchFailed
    /\ spc = "idle"
    /\ sresult.op = "build"
    /\ sresult.how = "raise"
    /\ fpc = "new"

\* the step is a retrieval of run whose query embedding failed
RetrievalEmbedFails ==
    /\ fpc = "rag"
    /\ runlog' # runlog
    /\ embed_count' = embed_count
\* run has ended with the exception of the retrieval of the query at qi
RunRaisedInRetrieval ==
    /\ fpc = "raised"
    /\ runlog # <<>>
    /\ Last(runlog) = RemoteCall(qi, "retrieve")

\* C37: an embedding failure in the retrieval of a query, on an index that
\* was built, is not absorbed: it leaves process and run. No row is
\* recorded for that query or for a later one, the judge is not called for
\* that query, and no call is made after it.
C37_RetrievalFailureEndsRun ==
    /\ [][RetrievalEmbedFails =>
            /\ fpc' = "raised"
            /\ sresult'.op = "search" /\ sresult'.how = "raise"
            /\ runlog' = Append(runlog, RemoteCall(qi, "retrieve"))
            /\ UNCHANGED <<results, call_count, jops, qi>>]_vars
    /\ [](RunRaisedInRetrieval =>
            /\ Len(results) = qi - 1
            /\ \A i \in 1..Len(results) : results[i].query_id # TEST_QUERIES[qi].id
            /\ \A i \in 1..Len(runlog) :
                  /\ runlog[i].query <= qi
                  /\ runlog[i] \notin {RemoteCall(qi, "generate"),
                                        RemoteCall(qi, "critique"),
                                        RemoteCall(qi, "judge")})
    /\ [][fpc = "raised" =>
            UNCHANGED <<fpc, qi, results, runlog, jops, call_count, embed_count>>]_vars

\* the first query has its row; the embedding of the second query failed
\* on the index built at the start
C37_Witness ==
    /\ RunRaisedInRetrieval
    /\ everBuilt
    /\ ~buildFailed
    /\ ~index.none
    /\ sresult.op = "search"
    /\ sresult.how = "raise"
    /\ qi = 2
    /\ Len(results) = 1
    /\ jops = 1

(***************************************************************************)
(* Properties of the counters.                                             *)
(***************************************************************************)
ChatStages == {"normal", "generate", "critique", "judge"}
\* the remote calls of the step
NewCalls == SubSeq(runlog', Len(runlog) + 1, Len(runlog'))
Called(stage) == \E i \in 1..Len(NewCalls) : NewCalls[i].stage = stage
\* the chat calls of the step that came back with a text
Answered ==
    {stage \in ChatStages :
        /\ Called(stage)
        /\ IF stage = "judge" THEN jlog'[1].outcome = "text"
           ELSE stages'[stage] = "text"}
\* the step is an embed call of build_index that returned vectors
BatchEmbedded ==
    /\ spc = "building"
    /\ Len(all_embeddings') = Len(all_embeddings) + 1
    /\ ~all_embeddings'[Len(all_embeddings')].none
CountersFollowCalls ==
    /\ call_count' = call_count + Cardinality(Answered)
    /\ embed_count' >= embed_count
    /\ embed_count' # embed_count =>
          \/ /\ BatchEmbedded
             /\ embed_count' = embed_count
                   + Len(all_embeddings'[Len(all_embeddings')].rows)
          \/ /\ Called("retrieve")
             /\ embed_count' = embed_count + 1

\* where main goes with the step, told from where it is and from how the
\* calls of the step ended, without the counters
ControlIgnoresCounters ==
    fpc' = CASE fpc = "new" ->
                  IF qi' = qi THEN "new"
                  ELSE IF MaxQueries = 0 THEN "done" ELSE "normal"
             [] fpc = "normal" -> "rag"
             [] fpc = "rag" -> IF sresult'.how = "raise" THEN "raised" ELSE "judge"
             [] fpc = "judge" ->
                  IF jresult'.how = "raise" THEN "raised"
                  ELSE IF qi = MaxQueries THEN "done" ELSE "normal"
             [] OTHER -> fpc

\* C29: the counters of the client change only in chat and embed. Over a
\* run, every step leaves call_count and embed_count as they are or larger;
\* call_count grows by one for each chat call of the step that succeeded
\* and not otherwise, embed_count by the number of texts of the embed call
\* of the step that succeeded and not otherwise; the steps of the store,
\* the pipelines, the judge and the runner that make no such call leave
\* both alone, and where the run goes next follows from where it is and
\* from how the calls of the step ended, not from the counters.
C29_CountersOnlyCountCalls ==
    [][CountersFollowCalls /\ ControlIgnoresCounters]_vars

C29_Witness ==
    /\ fpc = "done"
    /\ embed_count >= 1 + MaxQueries
    /\ call_count >= 2
    /\ call_count < 4 * MaxQueries

=============================================================================
